---- MODULE Spec2Model ----
(***************************************************************************)
(* The outbound request pipeline of the Gorgias MCP server: the sliding-   *)
(* window RateLimiter (src/utils/rate-limiter.ts), the RetryHandler        *)
(* (src/utils/retry-handler.ts) and the GorgiasClient that composes them   *)
(* (src/utils/gorgias-client.ts).                                          *)
(*                                                                         *)
(* Node runs one callback at a time, so a step of the model is one run of  *)
(* a logical task from the point where it is resumed to its next await on  *)
(* a timer or on the network.                                              *)
(*                                                                         *)
(* Time: the time axis is kept relative to the current instant.  Date.now()*)
(* is the origin (now), every stored time is an offset from it, and the    *)
(* passage of d milliseconds (Tick) moves every stored time d further into *)
(* the past.  A timestamp that has left the trailing window is held at the *)
(* window's edge (now - windowMs): the code reads a timestamp only through *)
(* `time > now - windowMs`, which is false at the edge and beyond.         *)
(***************************************************************************)
EXTENDS Integers, Sequences, FiniteSets, TLC

\* ------------------------------------------------------------------ bounds
NumTasks == 3
MaxRequestsPerWindow == 2
MaxWindowMs == 3
MaxCalls == 4
MaxAttempts == 3
MaxClientCalls == 2
Burst == 38
ClientTickMs == 10000
MaxStatus == 510
MaxLimit == 3
MaxPages == 2
MaxTickets == 3
BigPageLen == 101

\* new RateLimiter(40, 20000, logger)
ClientRequestsPerWindow == 40
ClientWindowMs == 20000

Tasks == 1..NumTasks

VARIABLES
  pc,                  \* where each logical task stands
  \* RateLimiter
  requestsPerWindow,   \* RateLimiter.requestsPerWindow
  windowMs,            \* RateLimiter.windowMs
  requests,            \* RateLimiter.requests: the recorded timestamps
  wakeAt,              \* the time a suspended task's timer is due
  waits,               \* timer waits the task's current checkLimit call has taken
  calls,               \* calls started so far (checkLimit calls, client calls)
  issued,              \* history: every timestamp recorded, while it can share a window with now
  \* RetryHandler
  maxAttempts,         \* RetryHandler.maxAttempts
  baseDelay,           \* RetryHandler.baseDelay
  delay,               \* executeWithRetry: the delay of the backoff a call is in
  attempt,             \* executeWithRetry: the loop counter of each call
  lastError,           \* executeWithRetry: lastError of each call
  returned,            \* the value a call returned
  raised,              \* the error a call raised
  invoked,             \* history: how often the call has invoked its operation
  delays,              \* history: how many backoff delays the call has taken
  lastOutcome,         \* history: how the latest invocation of the operation ended
  retryableFailures,   \* history: failures of the call that shouldRetry accepted
  otherFailures,       \* history: failures of the call that shouldRetry refused
  \* GorgiasClient
  op,                  \* the operation each task is calling
  arg,                 \* its argument
  phase,               \* listEvents, searchTickets: "primary" or "fallback" request
  sent,                \* history: the time of every HTTP request sent, as for issued
  \* response error interceptor, on its own
  exchange,            \* the failed HTTP exchange handed to the interceptor
  thrown,              \* the error the interceptor threw for it
  \* extractCustomerEmails
  xpc,                 \* where the extraction stands
  params,              \* its argument
  customerEmails,      \* the records collected so far
  cursor,              \* the cursor of the next customer page (0: none)
  processedCount,      \* customers recorded so far
  customers,           \* the customer page being worked on
  position,            \* the index in customers.data of the customer being worked on
  fetched,             \* history: the tickets fetched for each record of customerEmails
  delivered,           \* history: the customers of all pages delivered, in order
  seen,                \* history: the customers worked on, and whether they failed
  pageRequests,        \* history: customer pages requested by the call
  requestLimit,        \* history: the limit of the latest customer page request
  \* the client's operations, by what they send and return
  rpc,                 \* where the operation stands
  invocation,          \* the operation called and its input
  tries,               \* executeWithRetry: the attempt the operation runs as
  outbound,            \* the HTTP request the operation sent last
  caught,              \* the error the operation's own catch block caught
  listing,             \* history: the ticket listing its fallback request received
  result,              \* what the call returned or raised
  \* the server: configuration, Logger and tool invocations
  config,              \* the ServerConfig the client was constructed with
  logger,              \* Logger.level and Logger.enabled
  output,              \* the lines the latest step wrote to the console
  toolCall             \* history: the tool invoked and the arguments it was invoked with

limiterVars == <<requestsPerWindow, windowMs, requests, wakeAt, waits, calls, issued>>
retryVars == <<maxAttempts, baseDelay, delay, attempt, lastError, returned, raised, invoked, delays,
               lastOutcome, retryableFailures, otherFailures>>
clientVars == <<op, arg, phase>>
interceptorVars == <<exchange, thrown>>
\* What the request pipeline leaves alone.
extractVars == <<xpc, params, customerEmails, cursor, processedCount, customers, position,
                 fetched, delivered, seen, pageRequests, requestLimit>>
requestVars == <<rpc, invocation, tries, outbound, caught, listing, result>>
serverVars == <<config, logger, output, toolCall>>
otherVars == <<interceptorVars, extractVars, requestVars, serverVars>>
vars == <<pc, limiterVars, retryVars, clientVars, sent, otherVars>>

\* ------------------------------------------------------------ RateLimiter
\* const now = Date.now(): the origin of the relative time axis.
now == 0

windowStart == now - windowMs

\* A filter that also evicts the oldest timestamp of a full window.
PrunedEvictingOldest ==
  LET kept == SelectSeq(requests, LAMBDA time : time > windowStart)
  IN  IF Len(kept) >= requestsPerWindow /\ kept # <<>> THEN Tail(kept) ELSE kept

\* this.requests.filter(time => time > windowStart)
Pruned == SelectSeq(requests, LAMBDA time : time > windowStart)

\* oldestRequest + this.windowMs - now, of the pruned list
WaitTime == Pruned[1] + windowMs - now

MustWaitOffByOne ==
  /\ Len(Pruned) > requestsPerWindow
  /\ WaitTime > 0

MustWaitEarly ==
  /\ Len(Pruned) + 1 >= requestsPerWindow
  /\ Len(Pruned) > 0
  /\ WaitTime > 0

\* The two conditions under which checkLimit suspends; with an empty list
\* oldestRequest is undefined and `waitTime > 0` is false.
MustWait ==
  /\ Len(Pruned) >= requestsPerWindow
  /\ Len(Pruned) > 0
  /\ WaitTime > 0

\* A checkLimit that records now with unshift instead of push.
CheckLimitUnshift(t, after, w) ==
  IF MustWait
  THEN /\ requests' = Pruned
       /\ pc' = [pc EXCEPT ![t] = "wait"]
       /\ wakeAt' = [wakeAt EXCEPT ![t] = now + WaitTime]
       /\ waits' = [waits EXCEPT ![t] = w + 1]
       /\ issued' = issued
  ELSE /\ requests' = <<now>> \o Pruned
       /\ pc' = [pc EXCEPT ![t] = after]
       /\ wakeAt' = wakeAt
       /\ waits' = [waits EXCEPT ![t] = w]
       /\ issued' = Append(issued, now)

\* The body of checkLimit, run by the call and again by each timer callback
\* (`return this.checkLimit()`): prune, then either suspend on a timer or
\* record now and go on to `after`.  w counts the waits this call has taken.
CheckLimit(t, after, w) ==
  IF MustWait
  THEN /\ requests' = Pruned
       /\ pc' = [pc EXCEPT ![t] = "wait"]
       /\ wakeAt' = [wakeAt EXCEPT ![t] = now + WaitTime]
       /\ waits' = [waits EXCEPT ![t] = w + 1]
       /\ issued' = issued
  ELSE /\ requests' = Append(Pruned, now)
       /\ pc' = [pc EXCEPT ![t] = after]
       /\ wakeAt' = wakeAt
       /\ waits' = [waits EXCEPT ![t] = w]
       /\ issued' = Append(issued, now)

\* The promise whose resolve is never handed to setTimeout.
TimerNeverResolved(t) == FALSE

\* setTimeout(resolve, waitTime): the callback runs at or after the due time.
TimerDue(t) == wakeAt[t] <= now

Max(a, b) == IF a >= b THEN a ELSE b

\* A time d milliseconds later, seen from the new origin; a timestamp that
\* has left the window stays at its edge.
Aged(time, d) == Max(time - d, windowStart)

\* d milliseconds pass: every stored time moves d into the past.
Tick(d) ==
  /\ UNCHANGED otherVars
  /\ requests' = [i \in DOMAIN requests |-> Aged(requests[i], d)]
  /\ issued' = SelectSeq([i \in DOMAIN issued |-> Aged(issued[i], d)],
                         LAMBDA time : time > windowStart)
  /\ sent' = SelectSeq([i \in DOMAIN sent |-> Aged(sent[i], d)],
                       LAMBDA time : time > windowStart)
  /\ wakeAt' = [t \in Tasks |-> Max(wakeAt[t] - d, now)]
  /\ UNCHANGED <<pc, requestsPerWindow, windowMs, waits, calls, retryVars, clientVars>>

\* ----------------------------------------------------------- ERROR_CODES
RATE_LIMIT_EXCEEDED == "RATE_LIMIT_EXCEEDED"
RESOURCE_NOT_FOUND == "RESOURCE_NOT_FOUND"
VALIDATION_ERROR == "VALIDATION_ERROR"
NETWORK_ERROR == "NETWORK_ERROR"
UNAUTHORIZED == "UNAUTHORIZED"
FORBIDDEN == "FORBIDDEN"

\* ----------------------------------------------------------- RetryHandler
\* An error is its message, a sequence of words, and the HTTP status of
\* error.response (0: the error carries no response).
\* message.includes(code): the code occurs among the words of the message.
Includes(message, code) == \E i \in DOMAIN message : message[i] = code

\* lastError before any attempt has failed
Undefined == [message |-> <<>>, status |-> -1]

NoOutcome == [ok |-> FALSE, value |-> "none", error |-> Undefined]
Succeeded(v) == [ok |-> TRUE, value |-> v, error |-> Undefined]
Failed(e) == [ok |-> FALSE, value |-> "none", error |-> e]

\* shouldRetry(error)
ShouldRetry(error) ==
  \/ Includes(error.message, RATE_LIMIT_EXCEEDED)
  \/ Includes(error.message, NETWORK_ERROR)
  \/ (error.status > 0 /\ error.status >= 500)
  \/ error.status = 408
  \/ error.status = 429

\* calculateDelay: the cap, and the range of the jitter, Math.random() * 1000,
\* taken in whole milliseconds.
MaxDelayMs == 30000
JitterMs == 1000
Jitters == {0, 500, JitterMs - 1}

Min(a, b) == IF a <= b THEN a ELSE b

CalculateDelayNextExponent(a, jitter) == Min(baseDelay * 2^a + jitter, MaxDelayMs)

\* calculateDelay(attempt)
CalculateDelay(a, jitter) == Min(baseDelay * 2^(a - 1) + jitter, MaxDelayMs)

ExhaustedNever(n) == FALSE

ExhaustedEarly(n) == n >= maxAttempts - 1

\* if (attempt === this.maxAttempts) break
Exhausted(n) == n = maxAttempts

GivesUpOnlyWhenExhausted(n, error) == Exhausted(n)

\* The two breaks of the catch block: the attempts are used up, or the error
\* is not one to retry.
GivesUp(n, error) == Exhausted(n) \/ ~ShouldRetry(error)

CapturedFirst(t, n, error) == IF n = 1 THEN error ELSE lastError[t]

\* lastError = error as Error
Captured(t, n, error) == error

\* executeWithRetry is entered: nothing has been tried yet.
Enter(t) ==
  /\ returned' = [returned EXCEPT ![t] = "none"]
  /\ maxAttempts' = maxAttempts
  /\ baseDelay' = baseDelay

\* The state of a call that has not failed in this step.
NoCatch(t, n) ==
  /\ lastError' = [lastError EXCEPT ![t] = IF n = 1 THEN Undefined ELSE @]
  /\ raised' = [raised EXCEPT ![t] = Undefined]
  /\ delay' = [delay EXCEPT ![t] = 0]
  /\ delays' = [delays EXCEPT ![t] = IF n = 1 THEN 0 ELSE @]
  /\ lastOutcome' = [lastOutcome EXCEPT ![t] = NoOutcome]
  /\ retryableFailures' = [retryableFailures EXCEPT ![t] = IF n = 1 THEN 0 ELSE @]
  /\ otherFailures' = [otherFailures EXCEPT ![t] = IF n = 1 THEN 0 ELSE @]

\* The catch block of executeWithRetry for the error of attempt n; attempt 1
\* starts the call's history.
Catch(t, n, error) ==
  /\ lastError' = [lastError EXCEPT ![t] = Captured(t, n, error)]
  /\ lastOutcome' = [lastOutcome EXCEPT ![t] = Failed(error)]
  /\ retryableFailures' =
       [retryableFailures EXCEPT
          ![t] = (IF n = 1 THEN 0 ELSE @) + (IF ShouldRetry(error) THEN 1 ELSE 0)]
  /\ otherFailures' =
       [otherFailures EXCEPT
          ![t] = (IF n = 1 THEN 0 ELSE @) + (IF ShouldRetry(error) THEN 0 ELSE 1)]
  /\ IF GivesUp(n, error)
     THEN /\ pc' = [pc EXCEPT ![t] = "failed"]
          /\ raised' = [raised EXCEPT ![t] = lastError'[t]]
          /\ delay' = [delay EXCEPT ![t] = 0]
          /\ delays' = [delays EXCEPT ![t] = IF n = 1 THEN 0 ELSE @]
     ELSE /\ pc' = [pc EXCEPT ![t] = "backoff"]
          /\ raised' = [raised EXCEPT ![t] = Undefined]
          /\ \E jitter \in Jitters :
               delay' = [delay EXCEPT ![t] = CalculateDelay(n, jitter)]
          /\ delays' = [delays EXCEPT ![t] = (IF n = 1 THEN 0 ELSE @) + 1]

\* The values and the errors an operation handed to executeWithRetry ends with.
Values == {"v1", "v2"}
Messages ==
  { <<"boom">>,
    <<VALIDATION_ERROR, "boom">>,
    <<NETWORK_ERROR, "boom">>,
    <<RATE_LIMIT_EXCEEDED, "boom">>,
    <<VALIDATION_ERROR, "Invalid email format:", NETWORK_ERROR>> }
Statuses == {400, 404, 408, 429, 499, 500, 503}
Errors ==
  {[message |-> m, status |-> 0] : m \in Messages}
    \cup {[message |-> <<"boom">>, status |-> s] : s \in Statuses}

\* ---------------------------------------------------------- GorgiasClient
\* The client's methods that run inside retryHandler.executeWithRetry.
Operations ==
  {"listTickets", "getTicket", "listTicketMessages", "listCustomers", "getCustomer",
   "sendReply", "updateTicket", "getCustomerDetails", "createCustomer", "listEvents",
   "searchTickets", "getIntegrations"}

\* listEvents and searchTickets catch a failure of their first request and
\* send a second one, GET /tickets.
HasFallback(o) == o \in {"listEvents", "searchTickets"}

\* An e-mail address is a sequence of pieces: "@", ".", " " are those
\* characters, any other piece is a run of ordinary characters.
\* /^[^\s@]+@[^\s@]+\.[^\s@]+$/.test(email)
EmailRegexTest(email) ==
  \E i, j \in DOMAIN email :
    /\ 1 < i /\ i + 1 < j /\ j < Len(email)
    /\ email[i] = "@"
    /\ email[j] = "."
    /\ \A k \in DOMAIN email : k # i => email[k] \notin {"@", " "}

NoArg == [email |-> <<>>, message_type |-> "", receiver_email |-> <<>>]

\* The arguments an operation is called with, as far as its checks read them.
Args(o) ==
  CASE o = "createCustomer" ->
         {[NoArg EXCEPT !.email = e] :
            e \in { <<"ann", "@", "shop", ".", "com">>, <<"not-an-email">>,
                    <<NETWORK_ERROR>>, <<"ann", "@", "shop">>,
                    <<"ann", "@", "shop", ".">>, <<"@", "shop", ".", "com">>,
                    <<"ann", "@", "bob", "@", "shop", ".", "com">>,
                    <<"ann", " ", "lee", "@", "shop", ".", "com">>,
                    <<"ann", "@", ".", "shop", ".", "com">>, <<>> }}
    [] o = "sendReply" ->
         {[NoArg EXCEPT !.message_type = "outgoing", !.receiver_email = <<"ann@shop.com">>],
          [NoArg EXCEPT !.message_type = "outgoing"],
          [NoArg EXCEPT !.message_type = "internal-note"],
          [NoArg EXCEPT !.message_type = "incoming"]}
    [] OTHER -> {NoArg}

\* The checks an operation makes before its first request: the error it
\* throws, or Undefined when it goes on to the request.
Precondition(o, a) ==
  CASE o = "createCustomer" /\ ~EmailRegexTest(a.email) ->
         [message |-> <<VALIDATION_ERROR, "Invalid email format:">> \o a.email,
          status |-> 0]
    [] o = "sendReply" /\ a.message_type = "outgoing" /\ a.receiver_email = <<>> ->
         [message |-> <<VALIDATION_ERROR, "receiver_email is required for outgoing messages">>,
          status |-> 0]
    [] OTHER -> Undefined

\* A failed HTTP exchange: the status of the response (0: no response) and
\* error.response?.data?.message || error.message.
HttpStatuses == {0, 401, 403, 404, 429, 500}
RemoteTexts == {<<"boom">>, <<"upstream", NETWORK_ERROR>>}

TranslateWithoutForbidden(status, text) ==
  [message |->
     (CASE status = 401 -> <<UNAUTHORIZED, "Invalid API credentials">>
        [] status = 404 -> <<RESOURCE_NOT_FOUND, "Resource not found">>
        [] status = 429 -> <<RATE_LIMIT_EXCEEDED, "Rate limit exceeded">>
        [] status > 0 /\ status >= 500 -> <<NETWORK_ERROR, "Server error">>
        [] OTHER -> <<NETWORK_ERROR, "Request failed">>) \o text,
   status |-> 0]

\* The response error interceptor: the domain error thrown for a failure.
Translate(status, text) ==
  [message |->
     (CASE status = 401 -> <<UNAUTHORIZED, "Invalid API credentials">>
        [] status = 403 -> <<FORBIDDEN, "Access denied">>
        [] status = 404 -> <<RESOURCE_NOT_FOUND, "Resource not found">>
        [] status = 429 -> <<RATE_LIMIT_EXCEEDED, "Rate limit exceeded">>
        [] status > 0 /\ status >= 500 -> <<NETWORK_ERROR, "Server error">>
        [] OTHER -> <<NETWORK_ERROR, "Request failed">>) \o text,
   status |-> 0]

\* No failed exchange.
NoExchange == [status |-> -1, text |-> <<>>]

\* The response error interceptor runs for a failed exchange and throws.
Interceptor(status, text) ==
  /\ exchange' = [status |-> status, text |-> text]
  /\ thrown' = Translate(status, text)
  /\ UNCHANGED <<pc, limiterVars, retryVars, clientVars, sent, extractVars, requestVars,
                 serverVars>>

\* A request sent without passing the rate limiter.
Unlimited(t) ==
  /\ pc' = [pc EXCEPT ![t] = "inflight"]
  /\ sent' = Append(sent, now)
  /\ UNCHANGED <<requests, wakeAt, waits, issued>>

\* The limiter is passed once per call, before the retry envelope.
InterceptOncePerCall(t, w) ==
  IF invoked'[t] > 1 \/ phase'[t] = "fallback"
  THEN Unlimited(t)
  ELSE /\ CheckLimit(t, "inflight", w)
       /\ sent' = IF MustWait THEN sent ELSE Append(sent, now)

\* The request interceptor: this.client.get/post/put awaits checkLimit and,
\* once it has returned, the request is sent.
Intercept(t, w) ==
  /\ CheckLimit(t, "inflight", w)
  /\ sent' = IF MustWait THEN sent ELSE Append(sent, now)

\* An executeWithRetry that keeps its loop counter in the handler, shared by
\* all calls.
RunOperationSharedCounter(t, n, o, a) ==
  /\ attempt' = [u \in Tasks |-> n]
  /\ invoked' = [invoked EXCEPT ![t] = IF n = 1 THEN 1 ELSE @ + 1]
  /\ phase' = [phase EXCEPT ![t] = "primary"]
  /\ pc' = [pc EXCEPT ![t] = "attempting"]
  /\ NoCatch(t, n)
  /\ UNCHANGED <<requests, wakeAt, waits, issued, sent>>

\* The operation is invoked as attempt n of its call: its checks, then its
\* (first) request.  An operation of a plain executeWithRetry call is not
\* looked into.
RunOperation(t, n, o, a) ==
  /\ attempt' = [attempt EXCEPT ![t] = n]
  /\ invoked' = [invoked EXCEPT ![t] = IF n = 1 THEN 1 ELSE @ + 1]
  /\ phase' = [phase EXCEPT ![t] = "primary"]
  /\ IF o = "operation"
     THEN /\ pc' = [pc EXCEPT ![t] = "attempting"]
          /\ NoCatch(t, n)
          /\ UNCHANGED <<requests, wakeAt, waits, issued, sent>>
     ELSE IF Precondition(o, a) # Undefined
     THEN /\ Catch(t, n, Precondition(o, a))
          /\ UNCHANGED <<requests, wakeAt, waits, issued, sent>>
     ELSE /\ Intercept(t, 0)
          /\ NoCatch(t, n)

\* for (let attempt = 1; attempt <= this.maxAttempts; ...): the call starts;
\* with maxAttempts < 1 the loop body never runs and the undefined lastError
\* is thrown.
StartCall(t, o, a) ==
  /\ UNCHANGED otherVars
  /\ pc[t] = "idle"
  /\ op' = [op EXCEPT ![t] = o]
  /\ arg' = [arg EXCEPT ![t] = a]
  /\ Enter(t)
  /\ IF 1 <= maxAttempts
     THEN RunOperation(t, 1, o, a)
     ELSE /\ pc' = [pc EXCEPT ![t] = "failed"]
          /\ attempt' = [attempt EXCEPT ![t] = 1]
          /\ invoked' = [invoked EXCEPT ![t] = 0]
          /\ phase' = [phase EXCEPT ![t] = "primary"]
          /\ NoCatch(t, 1)
          /\ UNCHANGED <<requests, wakeAt, waits, issued, sent>>
  /\ UNCHANGED <<requestsPerWindow, windowMs>>

\* A task calls retryHandler.executeWithRetry(operation, name).
Execute(t) ==
  /\ StartCall(t, "operation", NoArg)
  /\ calls' = calls

\* A task calls one of the client's operations.
ClientCall(t, o, a) ==
  /\ calls < MaxClientCalls
  /\ calls' = calls + 1
  /\ StartCall(t, o, a)

\* return await operation(): the operation resolves with v.
OperationReturns(t, v) ==
  /\ UNCHANGED otherVars
  /\ pc[t] = "attempting"
  /\ pc' = [pc EXCEPT ![t] = "done"]
  /\ returned' = [returned EXCEPT ![t] = v]
  /\ lastOutcome' = [lastOutcome EXCEPT ![t] = Succeeded(v)]
  /\ UNCHANGED <<limiterVars, maxAttempts, baseDelay, delay, attempt, lastError, raised,
                 invoked, delays, retryableFailures, otherFailures, clientVars, sent>>

\* The operation rejects with error and the catch block runs.
OperationThrows(t, error) ==
  /\ UNCHANGED otherVars
  /\ pc[t] = "attempting"
  /\ Catch(t, attempt[t], error)
  /\ UNCHANGED <<limiterVars, maxAttempts, baseDelay, attempt, returned, invoked,
                 clientVars, sent>>

\* The backoff timer fires: attempt++, and the loop either invokes the
\* operation again or ends and throws lastError.
BackoffElapsed(t) ==
  /\ UNCHANGED otherVars
  /\ pc[t] = "backoff"
  /\ IF attempt[t] + 1 <= maxAttempts
     THEN RunOperation(t, attempt[t] + 1, op[t], arg[t])
     ELSE /\ pc' = [pc EXCEPT ![t] = "failed"]
          /\ attempt' = [attempt EXCEPT ![t] = @ + 1]
          /\ raised' = [raised EXCEPT ![t] = lastError[t]]
          /\ delay' = [delay EXCEPT ![t] = 0]
          /\ UNCHANGED <<requests, wakeAt, waits, issued, sent, invoked, phase, lastError,
                         delays, lastOutcome, retryableFailures, otherFailures>>
  /\ UNCHANGED <<requestsPerWindow, windowMs, calls, maxAttempts, baseDelay, returned,
                 op, arg>>

\* The response of the request in flight arrives with a 2xx status: the
\* operation returns response.data (or what its fallback makes of it).
ResponseOk(t, v) ==
  /\ UNCHANGED otherVars
  /\ pc[t] = "inflight"
  /\ pc' = [pc EXCEPT ![t] = "done"]
  /\ returned' = [returned EXCEPT ![t] = v]
  /\ lastOutcome' = [lastOutcome EXCEPT ![t] = Succeeded(v)]
  /\ UNCHANGED <<limiterVars, maxAttempts, baseDelay, delay, attempt, lastError, raised,
                 invoked, delays, retryableFailures, otherFailures, clientVars, sent>>

\* The request in flight fails.  The response interceptor throws the domain
\* error; listEvents and searchTickets catch it on their first request and
\* send GET /tickets, any other operation rejects with it.
ResponseError(t, status, text) ==
  /\ UNCHANGED otherVars
  /\ pc[t] = "inflight"
  /\ UNCHANGED <<requestsPerWindow, windowMs, calls, maxAttempts, baseDelay, attempt,
                 returned, invoked, op, arg>>
  /\ IF HasFallback(op[t]) /\ phase[t] = "primary"
     THEN /\ phase' = [phase EXCEPT ![t] = "fallback"]
          /\ Intercept(t, 0)
          /\ UNCHANGED <<lastError, raised, delay, delays, lastOutcome, retryableFailures,
                         otherFailures>>
     ELSE /\ Catch(t, attempt[t], Translate(status, text))
          /\ UNCHANGED <<requests, wakeAt, waits, issued, sent, phase>>

\* ------------------------------------------- callers of the RateLimiter
\* A task calls rateLimiter.checkLimit().
Call(t) ==
  /\ UNCHANGED otherVars
  /\ pc[t] = "idle"
  /\ calls < MaxCalls
  /\ calls' = calls + 1
  /\ CheckLimit(t, "returned", 0)
  /\ UNCHANGED <<requestsPerWindow, windowMs, retryVars, clientVars, sent>>

\* The timer of a suspended checkLimit fires and the call re-evaluates; the
\* request interceptor then sends its request.
TimerFires(t) ==
  /\ UNCHANGED otherVars
  /\ pc[t] = "wait"
  /\ TimerDue(t)
  /\ UNCHANGED <<requestsPerWindow, windowMs, calls, retryVars, clientVars>>
  /\ IF op[t] = "checkLimit"
     THEN CheckLimit(t, "returned", waits[t]) /\ sent' = sent
     ELSE Intercept(t, waits[t])

\* The caller goes on after its call has returned or raised; what the call
\* held goes out of scope.
Return(t) ==
  /\ UNCHANGED otherVars
  /\ pc[t] \in {"returned", "done", "failed"}
  /\ pc' = [pc EXCEPT ![t] = "idle"]
  /\ waits' = [waits EXCEPT ![t] = 0]
  /\ attempt' = [attempt EXCEPT ![t] = 1]
  /\ lastError' = [lastError EXCEPT ![t] = Undefined]
  /\ returned' = [returned EXCEPT ![t] = "none"]
  /\ raised' = [raised EXCEPT ![t] = Undefined]
  /\ invoked' = [invoked EXCEPT ![t] = 0]
  /\ delay' = [delay EXCEPT ![t] = 0]
  /\ delays' = [delays EXCEPT ![t] = 0]
  /\ lastOutcome' = [lastOutcome EXCEPT ![t] = NoOutcome]
  /\ retryableFailures' = [retryableFailures EXCEPT ![t] = 0]
  /\ otherFailures' = [otherFailures EXCEPT ![t] = 0]
  /\ arg' = [arg EXCEPT ![t] = NoArg]
  /\ phase' = [phase EXCEPT ![t] = "primary"]
  /\ UNCHANGED <<requestsPerWindow, windowMs, requests, wakeAt, calls, issued, maxAttempts,
                 baseDelay, op, sent>>

\* -------------------------------------------------- extractCustomerEmails
\* The extraction calls listCustomers and listTickets and awaits each; a step
\* runs it from one settled call to the next.  A customer is its id.  A time
\* is counted in half days: day d starts at time d * TicksPerDay.  A ticket is
\* [created, status, score], score 0 standing for no satisfaction score, and a
\* date parameter is a day, 0 standing for none.
TicksPerDay == 2
NoDate == 0
UndefinedNumber == -1
DefaultLimit == 100
PageSize == 100

\* new Date("YYYY-MM-DD"): the start of that day.
ParseDate(day) == day * TicksPerDay

\* const maxLimit = params.limit || 100
MaxLimitOf(p) == IF p.limit = 0 THEN DefaultLimit ELSE p.limit

\* The predicate of the date filter.
InRange(ticket, p) ==
  /\ p.date_from = NoDate \/ ticket.created >= ParseDate(p.date_from)
  /\ p.date_to = NoDate \/ ticket.created <= ParseDate(p.date_to)

\* params.status_filter.includes(ticket.status)
InStatusFilter(ticket, p) == \E i \in DOMAIN p.status_filter : p.status_filter[i] = ticket.status

\* filteredTickets before it is sorted.
FilteredTickets(tickets, p) ==
  LET byDate == IF p.date_from # NoDate \/ p.date_to # NoDate
                THEN SelectSeq(tickets, LAMBDA ticket : InRange(ticket, p))
                ELSE tickets
  IN  IF p.status_filter # <<>>
      THEN SelectSeq(byDate, LAMBDA ticket : InStatusFilter(ticket, p))
      ELSE byDate

\* One ticket put into a list sorted by created, latest first, behind the
\* tickets of the same time.
RECURSIVE Insert(_, _)
Insert(ticket, sorted) ==
  IF sorted = <<>> THEN <<ticket>>
  ELSE IF Head(sorted).created >= ticket.created
       THEN <<Head(sorted)>> \o Insert(ticket, Tail(sorted))
       ELSE <<ticket>> \o sorted

SortedOldestFirst(tickets) == tickets

\* filteredTickets.sort((a, b) => b.created_datetime - a.created_datetime):
\* a stable sort, latest first.
RECURSIVE Sorted(_)
Sorted(tickets) ==
  IF tickets = <<>> THEN <<>>
  ELSE Insert(tickets[Len(tickets)], Sorted(SubSeq(tickets, 1, Len(tickets) - 1)))

RECURSIVE SumOfScores(_)
SumOfScores(tickets) ==
  IF tickets = <<>> THEN 0 ELSE Head(tickets).score + SumOfScores(Tail(tickets))

FloorHundredths(sum, n) == (100 * sum) \div n

\* Math.round(average * 100), the average being sum / n: the score in
\* hundredths.
RoundHundredths(sum, n) == (200 * sum + n) \div (2 * n)

\* calculateAverageSatisfaction(tickets), in hundredths.
CalculateAverageSatisfaction(tickets) ==
  LET satisfactionScores == SelectSeq(tickets, LAMBDA ticket : ticket.score # 0)
  IN  IF Len(satisfactionScores) = 0
      THEN UndefinedNumber
      ELSE RoundHundredths(SumOfScores(satisfactionScores), Len(satisfactionScores))

\* The CustomerEmailData of a customer whose tickets have been fetched.
CustomerData(customer, tickets, p) ==
  LET filteredTickets == FilteredTickets(tickets, p)
      sorted == Sorted(filteredTickets)
  IN  [customer_id |-> customer,
       ticket_count |-> Len(filteredTickets),
       last_ticket_date |-> IF Len(filteredTickets) > 0 THEN sorted[1].created ELSE NoDate,
       status |-> IF Len(filteredTickets) > 0 THEN sorted[1].status ELSE "unknown",
       satisfaction_score |-> IF p.include_satisfaction
                              THEN CalculateAverageSatisfaction(sorted)
                              ELSE UndefinedNumber]

BreakNever(count, p) == FALSE

\* if (processedCount >= maxLimit) break
Break(count, p) == count >= MaxLimitOf(p)

ContinueWhileCursor(next, count, p) == next # 0

\* while (cursor && processedCount < maxLimit)
Continue(next, count, p) == next # 0 /\ count < MaxLimitOf(p)

\* listCustomers is called for the next page.
RequestPage(count, p) ==
  /\ xpc' = "customers"
  /\ pageRequests' = pageRequests + 1
  /\ requestLimit' = Min(PageSize, MaxLimitOf(p) - count)

\* A variant that leaves the rest of a page for the next page once one
\* customer of the page is handled.
AdvancePrefetching(i, count, page, p) ==
  /\ position' = i
  /\ IF i <= Len(page.data) /\ ~Break(count, p)
        /\ ~(i > 1 /\ Continue(page.next_cursor, count, p))
     THEN /\ xpc' = "tickets"
          /\ UNCHANGED <<cursor, pageRequests, requestLimit>>
     ELSE /\ cursor' = page.next_cursor
          /\ IF Continue(page.next_cursor, count, p)
             THEN RequestPage(count, p)
             ELSE /\ xpc' = "done"
                  /\ UNCHANGED <<pageRequests, requestLimit>>

\* The for loop stands before the customer at index i of the page, count
\* customers being recorded: it fetches that customer's tickets, or it is
\* over, the page's cursor is taken, and the do-while loop goes on or ends.
Advance(i, count, page, p) ==
  /\ position' = i
  /\ IF i <= Len(page.data) /\ ~Break(count, p)
     THEN /\ xpc' = "tickets"
          /\ UNCHANGED <<cursor, pageRequests, requestLimit>>
     ELSE /\ cursor' = page.next_cursor
          /\ IF Continue(page.next_cursor, count, p)
             THEN RequestPage(count, p)
             ELSE /\ xpc' = "done"
                  /\ UNCHANGED <<pageRequests, requestLimit>>

pipelineVars ==
  <<pc, limiterVars, retryVars, clientVars, sent, interceptorVars, requestVars, serverVars>>

\* extractCustomerEmails(params) is called.
ExtractCall(p) ==
  /\ xpc = "idle"
  /\ params' = p
  /\ customerEmails' = <<>>
  /\ cursor' = 0
  /\ processedCount' = 0
  /\ customers' = [data |-> <<>>, next_cursor |-> 0]
  /\ position' = 0
  /\ fetched' = <<>>
  /\ delivered' = <<>>
  /\ seen' = <<>>
  /\ xpc' = "customers"
  /\ pageRequests' = 1
  /\ requestLimit' = Min(PageSize, MaxLimitOf(p))
  /\ UNCHANGED pipelineVars

\* listCustomers resolves with a page; a page with a cursor comes only while
\* more pages may be requested.
CustomersArrive(data, next) ==
  /\ xpc = "customers"
  /\ next # 0 => pageRequests < MaxPages
  /\ customers' = [data |-> data, next_cursor |-> next]
  /\ delivered' = delivered \o data
  /\ Advance(1, processedCount, customers', params)
  /\ UNCHANGED <<params, customerEmails, processedCount, fetched, seen>>
  /\ UNCHANGED pipelineVars

\* listCustomers rejects: the extraction logs the error and throws it.
CustomersFail ==
  /\ xpc = "customers"
  /\ xpc' = "failed"
  /\ UNCHANGED <<params, customerEmails, cursor, processedCount, customers, position,
                 fetched, delivered, seen, pageRequests, requestLimit>>
  /\ UNCHANGED pipelineVars

\* The customer at hand.
Customer == IF xpc = "tickets" THEN customers.data[position] ELSE 0

\* listTickets resolves for the customer at hand: its record is pushed.
TicketsArrive(tickets) ==
  /\ xpc = "tickets"
  /\ customerEmails' =
       Append(customerEmails, CustomerData(Customer, tickets, params))
  /\ processedCount' = processedCount + 1
  /\ fetched' = Append(fetched, tickets)
  /\ seen' = Append(seen, [customer |-> Customer, failed |-> FALSE])
  /\ Advance(position + 1, processedCount + 1, customers, params)
  /\ UNCHANGED <<params, customers, delivered>>
  /\ UNCHANGED pipelineVars

\* A variant without the inner catch: the rejection ends the extraction.
TicketsFailAborts ==
  /\ xpc = "tickets"
  /\ xpc' = "failed"
  /\ seen' = Append(seen, [customer |-> Customer, failed |-> TRUE])
  /\ UNCHANGED <<params, customerEmails, cursor, processedCount, customers, position,
                 fetched, delivered, pageRequests, requestLimit>>
  /\ UNCHANGED pipelineVars

\* A variant that counts the failed customer as processed.
TicketsFailCounted ==
  /\ xpc = "tickets"
  /\ seen' = Append(seen, [customer |-> Customer, failed |-> TRUE])
  /\ processedCount' = processedCount + 1
  /\ Advance(position + 1, processedCount + 1, customers, params)
  /\ UNCHANGED <<params, customerEmails, customers, fetched, delivered>>
  /\ UNCHANGED pipelineVars

\* listTickets rejects for the customer at hand: the inner catch logs it and
\* the loop goes on.
TicketsFail ==
  /\ xpc = "tickets"
  /\ seen' = Append(seen, [customer |-> Customer, failed |-> TRUE])
  /\ Advance(position + 1, processedCount, customers, params)
  /\ UNCHANGED <<params, customerEmails, processedCount, customers, fetched, delivered>>
  /\ UNCHANGED pipelineVars

\* The caller goes on with the list returned or the error thrown.
ExtractReturn ==
  /\ xpc \in {"done", "failed"}
  /\ xpc' = "idle"
  /\ customerEmails' = <<>>
  /\ cursor' = 0
  /\ processedCount' = 0
  /\ customers' = [data |-> <<>>, next_cursor |-> 0]
  /\ position' = 0
  /\ fetched' = <<>>
  /\ delivered' = <<>>
  /\ seen' = <<>>
  /\ pageRequests' = 0
  /\ requestLimit' = 0
  /\ UNCHANGED params
  /\ UNCHANGED pipelineVars

NoParams ==
  [date_from |-> NoDate, date_to |-> NoDate, status_filter |-> <<>>,
   include_satisfaction |-> FALSE, limit |-> 0]

\* Sequences over S of a length up to n.
SeqUpTo(S, n) == UNION {[1..k -> S] : k \in 0..n}

\* Paging: calls that differ in their limit (0: none given); pages of up to
\* three customers whose ticket fetch may fail, or a first page of BigPageLen
\* times customer 4, more than any page request asks for.
PagingParams == {[NoParams EXCEPT !.limit = l] : l \in 0..MaxLimit}
BigPage == [i \in 1..BigPageLen |-> 4]
Pages == {<<>>, <<1>>, <<1, 2>>, <<1, 2, 3>>, <<3, 2, 1>>}
Cursors == {0, 1}
OneTicket == [created |-> 3, status |-> "open", score |-> 0]
TicketLists(customer) ==
  CASE customer = 0 -> {}
    [] customer = 4 -> {<<>>}
    [] OTHER -> {<<OneTicket>>}
CanFail(customer) == customer \notin {0, 4}

\* Aggregation: one customer, calls that differ in their filters, ticket
\* lists of up to MaxTickets tickets.
Tickets ==
  { [created |-> 3, status |-> "open", score |-> 4],
    [created |-> 3, status |-> "closed", score |-> 0],
    [created |-> 4, status |-> "closed", score |-> 5],
    [created |-> 4, status |-> "open", score |-> 5],
    [created |-> 5, status |-> "open", score |-> 0],
    [created |-> 5, status |-> "closed", score |-> 4] }
Days == {NoDate, 1, 2}
StatusFilters == {<<>>, <<"open">>}
AggregateParams ==
  {[date_from |-> f, date_to |-> t, status_filter |-> sf, include_satisfaction |-> is,
    limit |-> 1] :
     f \in Days, t \in Days, sf \in StatusFilters, is \in BOOLEAN}

\* ------------------------------------------- configuration and Logger
\* A text is a sequence of pieces (see below); the credentials are two
\* pieces.
Username == "agent"
ApiKey == "secret"

\* enum LogLevel
LogLevel == [DEBUG |-> 0, INFO |-> 1, WARN |-> 2, ERROR |-> 3]

\* new Logger(config.debug ? LogLevel.DEBUG : LogLevel.INFO, ...) as the
\* server and the test command construct it: logging is disabled when the
\* process runs the start command without --debug.
NewLogger(debug, command) ==
  [level |-> IF debug THEN LogLevel.DEBUG ELSE LogLevel.INFO,
   enabled |-> ~(command = "start" /\ ~debug)]

Line(level, text) == [level |-> level, text |-> text]

\* Logger.debug, info, warn, error: a line is written when the logger is
\* enabled and its level is not above the line's.
Written(lines) == {l \in lines : logger.enabled /\ logger.level <= LogLevel[l.level]}

\* The lines of this step.
Emit(lines) == output' = Written(lines)

\* Buffer.from(text).toString('base64'), for the text the code encodes.
Base64(text) == <<((<<Username, ":", ApiKey>> :> "YWdlbnQ6c2VjcmV0") @@ (<<>> :> ""))[text]>>

\* The GorgiasClient constructor's debug lines.
ConstructorLines(c) ==
  {Line("DEBUG", <<"API Base URL:", "https://${config.domain}.gorgias.com/api">>),
   Line("DEBUG", <<"Auth header:", "Basic">> \o Base64(<<c.username, ":", c.apiKey>>))}

\* The request interceptor, the response interceptor.
RequestLine(request) == Line("DEBUG", <<"Making request to", request.method, request.path>>)
ResponseLine(request) == Line("DEBUG", <<"Response received:", "from", request.path>>)
FailureLine(text, request) == Line("ERROR", <<"Request failed:">> \o text \o <<request.path>>)

\* The catch block of a tool handler and the one of the CallTool handler:
\* logger.error(text, error), an Error being printed by JSON.stringify.
CatchLines ==
  {Line("ERROR", <<"Error in handler:", "{}">>), Line("ERROR", <<"Error executing tool:", "{}">>)}

\* error.name: createValidationError names its errors, whose messages the
\* handlers start with "Invalid input:".
ErrorName(error) ==
  IF error.message # <<>> /\ error.message[1] = "Invalid input:"
  THEN "ValidationError" ELSE "Error"

\* GorgiasMCPServer.transformError: the McpError thrown to the tool's caller;
\* for an undefined error, reading error.message throws a TypeError instead.
TransformError(error) ==
  LET message == IF error.message = <<>> THEN <<"Unknown error">> ELSE error.message
  IN  IF error = Undefined
      THEN [code |-> "TypeError", message |-> <<"Cannot read properties of undefined">>]
      ELSE IF Includes(message, "INVALID_API_KEY") \/ Includes(message, UNAUTHORIZED)
      THEN [code |-> "InvalidRequest", message |-> <<"Invalid API credentials">>]
      ELSE IF Includes(message, RATE_LIMIT_EXCEEDED)
      THEN [code |-> "InvalidRequest", message |-> <<"Rate limit exceeded. Please try again later.">>]
      ELSE IF Includes(message, RESOURCE_NOT_FOUND)
      THEN [code |-> "InvalidRequest", message |-> <<"Requested resource not found">>]
      ELSE IF Includes(message, VALIDATION_ERROR) \/ ErrorName(error) = "ValidationError"
      THEN [code |-> "InvalidParams", message |-> message]
      ELSE IF Includes(message, NETWORK_ERROR)
      THEN [code |-> "InternalError", message |-> <<"Network error occurred">>]
      ELSE [code |-> "InternalError", message |-> <<"Internal server error:">> \o message]

\* --------------------------------------- GorgiasClient: requests and results
\* What the client's operations send and return.  A call is followed from its
\* first request to its result, each step from one settled request to the
\* next; the waits of the rate limiter and of the backoff are left out here.
\* An object is the function on the keys it has.  A text is a sequence of
\* pieces: "<", ">", " ", "@", ":" and the letters "A", "B", "a", "b" are
\* those characters, any other piece is a run of ordinary characters.
EmptyObject == <<>>

\* if (value) object[key] = value: a falsy value leaves the key out.
Entry(key, value, falsy) == IF value = falsy THEN EmptyObject ELSE key :> value

NoRequest ==
  [method |-> "", path |-> "", target |-> <<>>, query |-> EmptyObject, body |-> EmptyObject]

NoInvocation == [op |-> "none", input |-> EmptyObject]

\* response.data.data of a ticket listing: <<>> when the response has none,
\* <<tickets>> otherwise.
NoData == <<>>

NoResult ==
  [kind |-> "none", data |-> <<>>, total_resources |-> 0, flag |-> FALSE, error |-> Undefined]

\* return response.data
Response(v) == [NoResult EXCEPT !.kind = "response", !.data = <<v>>]
\* return true, return false
Boolean(b) == [NoResult EXCEPT !.kind = "boolean", !.flag = b]
\* return {data, meta: {...response.data.meta, total_resources: data.length}}
Page(data) == [NoResult EXCEPT !.kind = "page", !.data = data, !.total_resources = Len(data)]
Raised(error) == [NoResult EXCEPT !.kind = "raised", !.error = error]

OrderParamDefaultAsc(order_by, order_direction) ==
  <<order_by, ":", IF order_direction = "" THEN "asc" ELSE order_direction>>

\* const direction = params.order_direction || 'desc';
\* `${params.order_by}:${direction}`
OrderParam(order_by, order_direction) ==
  <<order_by, ":", IF order_direction = "" THEN "desc" ELSE order_direction>>

\* if (params.order_by) queryParams.order_by = ...
OrderEntry(p) ==
  IF p.order_by = "" THEN EmptyObject
  ELSE "order_by" :> OrderParam(p.order_by, p.order_direction)

\* listTickets: queryParams
ListTicketsQuery(p) ==
  Entry("limit", p.limit, 0) @@ Entry("cursor", p.cursor, "")
    @@ Entry("customer_id", p.customer_id, 0) @@ OrderEntry(p)

\* listCustomers: queryParams
ListCustomersQuery(p) ==
  Entry("limit", p.limit, 0) @@ Entry("cursor", p.cursor, "")
    @@ Entry("email", p.email, "") @@ Entry("external_id", p.external_id, "")
    @@ OrderEntry(p)

\* listEvents: queryParams of the request to /events
ListEventsQuery(p) ==
  Entry("limit", p.limit, 0) @@ Entry("cursor", p.cursor, "")
    @@ Entry("object_type", p.object_type, "") @@ Entry("object_id", p.object_id, 0)
    @@ Entry("event_type", p.event_type, "") @@ Entry("user_id", p.user_id, 0)

DefaultSearchLimit == 50

\* searchTickets: searchPayload
SearchPayload(q) ==
  ("query" :> q.query) @@ ("type" :> "ticket")
    @@ ("limit" :> IF q.limit = 0 THEN DefaultSearchLimit ELSE q.limit)

\* A value of an update: its JavaScript type and its text.
JSNull == [type |-> "null", value |-> <<>>]
Value(type, text) == [type |-> type, value |-> text]

PayloadKeepsNull(ticketUpdate) ==
  [key \in DOMAIN ticketUpdate \ {"ticket_id"} |-> ticketUpdate[key]]

\* updateTicket: payload, the entries of updateData that are neither
\* undefined nor null; a key whose value is undefined is a key left out.
Payload(ticketUpdate) ==
  [key \in {k \in DOMAIN ticketUpdate \ {"ticket_id"} : ticketUpdate[k] # JSNull}
     |-> ticketUpdate[key]]

\* The value of a property of an arguments object; undefined, like the empty
\* string, is the empty text.
Get(input, key) == IF key \in DOMAIN input THEN input[key].value ELSE <<>>

\* sendReply: messagePayload, as far as its texts go: body_text,
\* body_html: body_html || body_text, the receiver of an outgoing message,
\* the sender, and the subject if there is one.
MessagePayload(messageRequest) ==
  ("body_text" :> Get(messageRequest, "body_text"))
    @@ ("body_html" :> IF Get(messageRequest, "body_html") # <<>>
                       THEN Get(messageRequest, "body_html")
                       ELSE Get(messageRequest, "body_text"))
    @@ ("via" :> <<"api">>)
    @@ (IF Get(messageRequest, "message_type") = <<"outgoing">>
        THEN "receiver" :> Get(messageRequest, "receiver_email") ELSE EmptyObject)
    @@ (IF Get(messageRequest, "message_type")
             \in {<<"outgoing">>, <<"internal-note">>, <<"incoming">>}
        THEN "sender" :> Get(messageRequest, "sender_email") ELSE EmptyObject)
    @@ Entry("subject", Get(messageRequest, "subject"), <<>>)

\* The request an operation sends first.
PrimaryRequest(o, input) ==
  CASE o = "testConnection" ->
         [NoRequest EXCEPT !.method = "GET", !.path = "/tickets", !.query = "limit" :> 1]
    [] o = "listTickets" ->
         [NoRequest EXCEPT !.method = "GET", !.path = "/tickets",
                           !.query = ListTicketsQuery(input)]
    [] o = "listCustomers" ->
         [NoRequest EXCEPT !.method = "GET", !.path = "/customers",
                           !.query = ListCustomersQuery(input)]
    [] o = "updateTicket" ->
         [NoRequest EXCEPT !.method = "PUT", !.path = "/tickets/${ticket_id}",
                           !.target = input["ticket_id"].value,
                           !.body = Payload(input)]
    [] o = "sendReply" ->
         [NoRequest EXCEPT !.method = "POST", !.path = "/tickets/${ticket_id}/messages",
                           !.target = Get(input, "ticket_id"),
                           !.body = MessagePayload(input)]
    [] o = "listEvents" ->
         [NoRequest EXCEPT !.method = "GET", !.path = "/events",
                           !.query = ListEventsQuery(input)]
    [] o = "searchTickets" ->
         [NoRequest EXCEPT !.method = "POST", !.path = "/search",
                           !.body = SearchPayload(input)]

\* listEvents, searchTickets: the request of the catch block, GET /tickets
\* with the limit and the cursor.
FallbackRequest(o, input) ==
  [NoRequest EXCEPT !.method = "GET", !.path = "/tickets",
                    !.query = Entry("limit", input.limit, 0)
                                @@ Entry("cursor", input.cursor, "")]

SynthesizeFromCreated(ticket) ==
  [id |-> ticket.id, object_type |-> "ticket", object_id |-> ticket.id,
   event_type |-> "ticket-activity", user_id |-> ticket.assignee,
   created_datetime |-> ticket.created]

\* listEvents: the event made of a ticket.  A ticket here is its id, the id
\* of its assignee (0: none), its updated and created times (0: none).
Synthesize(ticket) ==
  [id |-> ticket.id, object_type |-> "ticket", object_id |-> ticket.id,
   event_type |-> "ticket-activity", user_id |-> ticket.assignee,
   created_datetime |-> IF ticket.updated # 0 THEN ticket.updated ELSE ticket.created]

FilterEventsByObjectOnly(events, p) ==
  LET ofType == IF p.object_type # "" /\ p.object_type # "ticket" THEN <<>> ELSE events
  IN  IF p.object_id # 0
      THEN SelectSeq(ofType, LAMBDA event : event.object_id = p.object_id)
      ELSE ofType

\* listEvents: the filters applied to the synthesized events.
FilterEvents(events, p) ==
  LET ofType == IF p.object_type # "" /\ p.object_type # "ticket" THEN <<>> ELSE events
      ofObject == IF p.object_id # 0
                  THEN SelectSeq(ofType, LAMBDA event : event.object_id = p.object_id)
                  ELSE ofType
  IN  IF p.user_id # 0
      THEN SelectSeq(ofObject, LAMBDA event : event.user_id = p.user_id)
      ELSE ofObject

\* listEvents: eventData of the catch block
EventData(p, data) ==
  FilterEvents(IF data = NoData THEN <<>>
               ELSE [i \in DOMAIN data[1] |-> Synthesize(data[1][i])], p)

ToLowerCaseIdentity(text) == text

\* String.prototype.toLowerCase
ToLowerCase(text) ==
  [i \in DOMAIN text |-> CASE text[i] = "A" -> "a" [] text[i] = "B" -> "b" [] OTHER -> text[i]]

\* String.prototype.includes
TextIncludes(text, term) ==
  \E i \in 0..(Len(text) - Len(term)) : SubSeq(text, i + 1, i + Len(term)) = term

\* ticket.subject?.toLowerCase().includes(searchTerm) ||
\* ticket.customer?.email?.toLowerCase().includes(searchTerm), a subject or
\* e-mail being <<>> when the ticket has none and <<text>> otherwise.
MatchesTerm(ticket, searchTerm) ==
  \/ ticket.subject # <<>> /\ TextIncludes(ToLowerCase(ticket.subject[1]), searchTerm)
  \/ ticket.email # <<>> /\ TextIncludes(ToLowerCase(ticket.email[1]), searchTerm)

\* searchTickets: filteredData of the catch block
FilteredData(q, data) ==
  LET all == IF data = NoData THEN <<>> ELSE data[1]
      byQuery == IF q.query # <<>>
                 THEN SelectSeq(all, LAMBDA ticket : MatchesTerm(ticket, ToLowerCase(q.query)))
                 ELSE all
      byStatus == IF q.status # ""
                  THEN SelectSeq(byQuery, LAMBDA ticket : ticket.status = q.status)
                  ELSE byQuery
      byChannel == IF q.channel # ""
                   THEN SelectSeq(byStatus, LAMBDA ticket : ticket.channel = q.channel)
                   ELSE byStatus
  IN  IF q.customer_email # <<>>
      THEN SelectSeq(byChannel, LAMBDA ticket : ticket.email = <<q.customer_email>>)
      ELSE byChannel

\* What the catch block of listEvents or searchTickets returns.
FallbackResult(o, input, data) ==
  IF o = "listEvents" THEN Page(EventData(input, data)) ELSE Page(FilteredData(input, data))

SwallowsNoFailure(o) == FALSE

\* testConnection catches every failure of its request and returns false.
SwallowsFailure(o) == o = "testConnection"

\* testConnection calls this.client.get itself; every other operation runs
\* inside retryHandler.executeWithRetry.
Retried(o) == o # "testConnection"

\* What these steps leave alone.
restVars ==
  <<pc, limiterVars, retryVars, clientVars, sent, interceptorVars, extractVars, config, logger>>

NoToolCall == [name |-> "", arguments |-> EmptyObject]

\* The catch block of executeWithRetry for the error of attempt n: nothing
\* when the attempts are used up, a warning before a backoff, an error for an
\* error that is not retried.
RetryLines(n, error) ==
  IF Exhausted(n) THEN {}
  ELSE IF ShouldRetry(error)
  THEN {Line("WARN", <<"failed (attempt n/maxAttempts):">> \o error.message \o <<"Retrying">>)}
  ELSE {Line("ERROR", <<"failed with non-retryable error:">> \o error.message)}

\* What a rejection of the operation writes: the lines of executeWithRetry,
\* then those of the tool's catch blocks or the next attempt's request.
RejectLines(error) ==
  RetryLines(tries, error)
    \cup (IF ~GivesUp(tries, error)
          THEN {RequestLine(PrimaryRequest(invocation.op, invocation.input))}
          ELSE IF toolCall # NoToolCall THEN CatchLines ELSE {})

\* What the CallTool handler and the tool's handler write before the client
\* is called.
ToolLines(call, input) ==
  IF call = NoToolCall THEN {}
  ELSE {Line("INFO", <<"Received tool call:", call.name>>),
        Line("INFO", <<"ticket">> \o Get(input, "ticket_id"))}

\* The operation o is called with input, for the tool invocation call or
\* directly: its first request is sent.  With maxAttempts < 1 the loop of
\* executeWithRetry never invokes the operation and undefined is thrown.
Begin(o, input, call) ==
  /\ rpc = "idle"
  /\ invocation' = [op |-> o, input |-> input]
  /\ toolCall' = call
  /\ caught' = Undefined
  /\ listing' = NoData
  /\ IF Retried(o) /\ maxAttempts < 1
     THEN /\ rpc' = "failed"
          /\ tries' = 0
          /\ outbound' = NoRequest
          /\ result' = Raised(Undefined)
          /\ Emit(ToolLines(call, input) \cup (IF call = NoToolCall THEN {} ELSE CatchLines))
     ELSE /\ rpc' = "primary"
          /\ tries' = IF Retried(o) THEN 1 ELSE 0
          /\ outbound' = PrimaryRequest(o, input)
          /\ result' = NoResult
          /\ Emit(ToolLines(call, input) \cup {RequestLine(PrimaryRequest(o, input))})
  /\ UNCHANGED restVars

\* The client's operation o is called with input.
Invoke(o, input) == Begin(o, input, NoToolCall)

\* The operation rejects with error: executeWithRetry gives up and throws it,
\* or invokes the operation again, which sends its first request.
Rejects(error) ==
  IF GivesUp(tries, error)
  THEN /\ rpc' = "failed"
       /\ result' = Raised(error)
       /\ UNCHANGED <<tries, outbound, caught>>
  ELSE /\ rpc' = "primary"
       /\ tries' = tries + 1
       /\ outbound' = PrimaryRequest(invocation.op, invocation.input)
       /\ caught' = Undefined
       /\ result' = NoResult

\* The first request is answered with a 2xx status.
PrimaryOk(v) ==
  /\ rpc = "primary"
  /\ rpc' = "done"
  /\ result' = IF invocation.op = "testConnection" THEN Boolean(TRUE) ELSE Response(v)
  /\ Emit({ResponseLine(outbound)})
  /\ UNCHANGED <<invocation, tries, outbound, caught, listing, toolCall>>
  /\ UNCHANGED restVars

\* The first request fails and the response interceptor throws.
PrimaryError(status, text) ==
  /\ rpc = "primary"
  /\ IF SwallowsFailure(invocation.op)
     THEN /\ rpc' = "done"
          /\ caught' = Translate(status, text)
          /\ result' = Boolean(FALSE)
          /\ Emit({FailureLine(text, outbound),
                   Line("ERROR", <<"Gorgias API connection failed:", "{}">>)})
          /\ UNCHANGED <<tries, outbound>>
     ELSE IF HasFallback(invocation.op)
     THEN /\ rpc' = "fallback"
          /\ caught' = Translate(status, text)
          /\ outbound' = FallbackRequest(invocation.op, invocation.input)
          /\ Emit({FailureLine(text, outbound),
                   Line("WARN", <<"endpoint failed, falling back">>),
                   RequestLine(FallbackRequest(invocation.op, invocation.input))})
          /\ UNCHANGED <<tries, result>>
     ELSE /\ Rejects(Translate(status, text))
          /\ Emit({FailureLine(text, outbound)} \cup RejectLines(Translate(status, text)))
  /\ UNCHANGED <<invocation, listing, toolCall>>
  /\ UNCHANGED restVars

\* The request of the catch block is answered with a ticket listing.
FallbackOk(data) ==
  /\ rpc = "fallback"
  /\ rpc' = "done"
  /\ listing' = data
  /\ result' = FallbackResult(invocation.op, invocation.input, data)
  /\ Emit({ResponseLine(outbound)})
  /\ UNCHANGED <<invocation, tries, outbound, caught, toolCall>>
  /\ UNCHANGED restVars

\* The request of the catch block fails too: the operation rejects.
FallbackError(status, text) ==
  /\ rpc = "fallback"
  /\ Rejects(Translate(status, text))
  /\ Emit({FailureLine(text, outbound)} \cup RejectLines(Translate(status, text)))
  /\ UNCHANGED <<invocation, listing, toolCall>>
  /\ UNCHANGED restVars

\* The caller goes on with the result.
Settle ==
  /\ rpc \in {"done", "failed"}
  /\ rpc' = "idle"
  /\ invocation' = NoInvocation
  /\ tries' = 0
  /\ outbound' = NoRequest
  /\ caught' = Undefined
  /\ listing' = NoData
  /\ result' = NoResult
  /\ toolCall' = NoToolCall
  /\ Emit({})
  /\ UNCHANGED restVars

\* validateType(value, expectedType)
ValidateType(value, expectedType) ==
  CASE expectedType \in {"string", "number", "boolean", "array", "object"} ->
         value.type = expectedType
    [] OTHER -> TRUE

\* TOOL_SCHEMAS.gorgias_update_ticket.inputSchema: the type of each property,
\* the enum of those that have one ({}: none), the required properties.
UpdateTicketTypes ==
  [ticket_id |-> "number", status |-> "string", assignee_user_id |-> "number",
   tags |-> "array", priority |-> "string", subject |-> "string", meta |-> "object"]
UpdateTicketEnums ==
  [ticket_id |-> {}, status |-> {<<"open">>, <<"closed">>, <<"spam">>},
   assignee_user_id |-> {}, tags |-> {},
   priority |-> {<<"low">>, <<"normal">>, <<"high">>, <<"urgent">>},
   subject |-> {}, meta |-> {}]
UpdateTicketRequired == {"ticket_id"}

\* validateInput(input, schema), for the update-ticket schema: the properties
\* found at fault.
ValidationErrors(input) ==
  (UpdateTicketRequired \ DOMAIN input)
    \cup {key \in DOMAIN input \cap DOMAIN UpdateTicketTypes :
            \/ ~ValidateType(input[key], UpdateTicketTypes[key])
            \/ UpdateTicketEnums[key] # {} /\ input[key].value \notin UpdateTicketEnums[key]}

\* TOOL_SCHEMAS.gorgias_send_reply.inputSchema
SendReplySchema ==
  [types |-> [ticket_id |-> "number", message_type |-> "string", body_text |-> "string",
              body_html |-> "string", sender_email |-> "string",
              receiver_email |-> "string", subject |-> "string",
              source_from_address |-> "string"],
   enums |-> [message_type |-> {<<"outgoing">>, <<"internal-note">>, <<"incoming">>}],
   required |-> {"ticket_id", "message_type", "body_text", "sender_email"}]

\* validateInput(input, schema), for a schema of types, enums and required
\* properties: the properties found at fault.
ValidateInput(input, schema) ==
  (schema.required \ DOMAIN input)
    \cup {key \in DOMAIN input \cap DOMAIN schema.types :
            \/ ~ValidateType(input[key], schema.types[key])
            \/ key \in DOMAIN schema.enums /\ input[key].value \notin schema.enums[key]}

RECURSIVE TrimStart(_)
TrimStart(text) == IF text # <<>> /\ text[1] = " " THEN TrimStart(Tail(text)) ELSE text

RECURSIVE TrimEnd(_)
TrimEnd(text) ==
  IF text # <<>> /\ text[Len(text)] = " " THEN TrimEnd(SubSeq(text, 1, Len(text) - 1)) ELSE text

\* sanitizeInput: input.replace(/[<>]/g, '').trim() on every string
SanitizeInput(input) ==
  [key \in DOMAIN input |->
     IF input[key].type = "string"
     THEN Value("string",
                TrimEnd(TrimStart(SelectSeq(input[key].value, LAMBDA c : c \notin {"<", ">"}))))
     ELSE input[key]]

\* handleUpdateTicket(args): the arguments are sanitized and validated; the
\* handler throws for invalid ones and calls updateTicket otherwise.
HandleUpdateTicket(args) ==
  LET sanitizedArgs == SanitizeInput(args)
  IN  IF ValidationErrors(sanitizedArgs) # {}
      THEN /\ rpc = "idle"
           /\ rpc' = "failed"
           /\ invocation' = [op |-> "updateTicket", input |-> sanitizedArgs]
           /\ result' = Raised([message |-> <<"Invalid input:">>, status |-> 0])
           /\ toolCall' = [name |-> "gorgias_update_ticket", arguments |-> args]
           /\ Emit({Line("INFO", <<"Received tool call:", "gorgias_update_ticket">>)}
                     \cup CatchLines)
           /\ UNCHANGED <<tries, outbound, caught, listing>>
           /\ UNCHANGED restVars
      ELSE Begin("updateTicket", sanitizedArgs,
                 [name |-> "gorgias_update_ticket", arguments |-> args])

HandleSendReplyUnchecked(args) ==
  Begin("sendReply", SanitizeInput(args), [name |-> "gorgias_send_reply", arguments |-> args])

\* handleSendReply(args): the arguments are sanitized and validated; the
\* handler throws for invalid ones and calls sendReply otherwise, which
\* throws for an outgoing message without receiver and sends the message
\* otherwise.
HandleSendReply(args) ==
  LET sanitizedArgs == SanitizeInput(args)
      call == [name |-> "gorgias_send_reply", arguments |-> args]
      type == Get(sanitizedArgs, "message_type")
      check == Precondition("sendReply",
                            [NoArg EXCEPT !.message_type = IF type = <<>> THEN "" ELSE type[1],
                                          !.receiver_email = Get(sanitizedArgs, "receiver_email")])
  IN  IF ValidateInput(sanitizedArgs, SendReplySchema) # {}
      THEN /\ rpc = "idle"
           /\ rpc' = "failed"
           /\ invocation' = [op |-> "sendReply", input |-> sanitizedArgs]
           /\ result' = Raised([message |-> <<"Invalid input:">>, status |-> 0])
           /\ toolCall' = call
           /\ Emit({Line("INFO", <<"Received tool call:", call.name>>)} \cup CatchLines)
           /\ UNCHANGED <<tries, outbound, caught, listing>>
           /\ UNCHANGED restVars
      ELSE IF maxAttempts >= 1 /\ check # Undefined
      THEN /\ rpc = "idle"
           /\ rpc' = "failed"
           /\ invocation' = [op |-> "sendReply", input |-> sanitizedArgs]
           /\ tries' = 1
           /\ result' = Raised(check)
           /\ toolCall' = call
           /\ Emit(ToolLines(call, sanitizedArgs) \cup RetryLines(1, check) \cup CatchLines)
           /\ UNCHANGED <<outbound, caught, listing>>
           /\ UNCHANGED restVars
      ELSE Begin("sendReply", sanitizedArgs, call)

\* Inputs.  listTickets and listCustomers: every parameter given or not, the
\* order field and direction each one of two or not given.
OrderFields == {"", "created_datetime", "updated_datetime"}
OrderDirections == {"", "asc", "desc"}
ListTicketsInputs ==
  [customer_id : {0, 5}, status : {"", "open"}, channel : {"", "email"},
   tags : {<<>>, <<"vip">>}, limit : {0, 2}, cursor : {"", "c1"},
   order_by : OrderFields, order_direction : OrderDirections]
ListCustomersInputs ==
  [email : {"", "ann@shop.com"}, external_id : {"", "x1"}, limit : {0, 2},
   cursor : {"", "c1"}, order_by : OrderFields, order_direction : OrderDirections]

\* updateTicket: ticket 5 and every update field left out, null or given.
UpdateFields == {"status", "assignee_user_id", "tags", "priority", "subject", "meta"}
GivenValue(key) ==
  CASE key = "status" -> Value("string", <<"closed">>)
    [] key = "assignee_user_id" -> Value("number", <<"7">>)
    [] key = "tags" -> Value("array", <<"vip">>)
    [] key = "priority" -> Value("string", <<"high">>)
    [] key = "subject" -> Value("string", <<"hi">>)
    [] key = "meta" -> Value("object", <<"{}">>)
TicketUpdate(given, nulls) ==
  [key \in {"ticket_id"} \cup given \cup nulls |->
     IF key = "ticket_id" THEN Value("number", <<"5">>)
     ELSE IF key \in nulls THEN JSNull ELSE GivenValue(key)]
TicketUpdates ==
  {TicketUpdate(given \ nulls, nulls) : given \in SUBSET UpdateFields, nulls \in SUBSET UpdateFields}

\* The arguments of the update-ticket tool: with and without ticket_id, the
\* assignee left out, null or a user, a status of the enum or not, a subject
\* to be sanitized.
ToolUpdates ==
  {ids @@ assignee @@ status @@ subject :
     ids \in {EmptyObject, "ticket_id" :> Value("number", <<"5">>)},
     assignee \in {EmptyObject, "assignee_user_id" :> JSNull,
                   "assignee_user_id" :> Value("number", <<"7">>)},
     status \in {EmptyObject, "status" :> Value("string", <<"open">>),
                 "status" :> Value("string", <<"resolved">>)},
     subject \in {EmptyObject, "subject" :> Value("string", <<" ", "<", "hi", ">">>)}}

\* listEvents: the filters given or not; listings of up to two tickets, or a
\* response without data.
ListEventsInputs ==
  [object_type : {"", "ticket", "customer"}, object_id : {0, 1, 2}, user_id : {0, 7},
   event_type : {"", "ticket-created"}, limit : {0, 2}, cursor : {""}]
EventTickets ==
  { [id |-> 1, assignee |-> 7, updated |-> 5, created |-> 3],
    [id |-> 1, assignee |-> 0, updated |-> 0, created |-> 3],
    [id |-> 2, assignee |-> 7, updated |-> 0, created |-> 4],
    [id |-> 2, assignee |-> 8, updated |-> 6, created |-> 4] }
MaxListing == 2
EventListings == {NoData} \cup {<<tickets>> : tickets \in SeqUpTo(EventTickets, MaxListing)}

\* searchTickets: queries in both cases, the filters given or not; tickets
\* with and without subject and customer e-mail.
SearchQueries ==
  [query : {<<>>, <<"a">>, <<"A", "b">>, <<"b", "a">>}, status : {"", "open"},
   channel : {"", "email"}, customer_email : {<<>>, <<"a", "@">>}, limit : {0, 2},
   cursor : {""}]
SearchTickets ==
  { [id |-> 1, subject |-> <<<<"A", "b">>>>, email |-> <<<<"a", "@">>>>,
     status |-> "open", channel |-> "email"],
    [id |-> 2, subject |-> <<<<"b">>>>, email |-> <<<<"B", "A", "@">>>>,
     status |-> "closed", channel |-> "email"],
    [id |-> 3, subject |-> <<>>, email |-> <<<<"A", "@">>>>,
     status |-> "open", channel |-> "chat"],
    [id |-> 4, subject |-> <<<<"x">>>>, email |-> <<>>,
     status |-> "open", channel |-> "email"],
    [id |-> 5, subject |-> <<>>, email |-> <<>>,
     status |-> "open", channel |-> "email"] }
SearchListings == {NoData} \cup {<<tickets>> : tickets \in SeqUpTo(SearchTickets, MaxListing)}

\* The listings the fallback request of the operation under way may receive.
Listings ==
  CASE invocation.op = "listEvents" -> EventListings
    [] invocation.op = "searchTickets" -> SearchListings
    [] OTHER -> {}

\* The arguments of the send-reply tool: with and without ticket_id, a
\* message type of the enum, outside it or of the wrong type, body_html left
\* out, empty, plain, with markup or with leading white space, with and
\* without receiver.
ReplyArguments ==
  {ids @@ type @@ html @@ receiver
     @@ ("body_text" :> Value("string", <<"hello">>))
     @@ ("sender_email" :> Value("string", <<"agent@shop.com">>)) :
     ids \in {EmptyObject, "ticket_id" :> Value("number", <<"5">>)},
     type \in {"message_type" :> Value("string", <<"outgoing">>),
               "message_type" :> Value("string", <<"internal-note">>),
               "message_type" :> Value("string", <<"note">>),
               "message_type" :> Value("number", <<"1">>)},
     html \in {EmptyObject, "body_html" :> Value("string", <<>>),
               "body_html" :> Value("string", <<"hello">>),
               "body_html" :> Value("string", <<"<", "b", ">", "hello", "<", "/b", ">">>),
               "body_html" :> Value("string", <<" ", "hello">>)},
     receiver \in {EmptyObject, "receiver_email" :> Value("string", <<"ann@shop.com">>)}}

\* ------------------------------------------------------- initial states
\* The defaults of the constructors.
DefaultRequestsPerWindow == 40
DefaultWindowMs == 20000
DefaultMaxAttempts == 3
DefaultBaseDelay == 1000

\* The base delays a RetryHandler is built with: the default, one that meets
\* the cap at the second backoff, one that is above the cap.
BaseDelays == {DefaultBaseDelay, 14600, 40000}

IdleTasks(o) ==
  /\ pc = [t \in Tasks |-> "idle"]
  /\ wakeAt = [t \in Tasks |-> now]
  /\ waits = [t \in Tasks |-> 0]
  /\ calls = 0
  /\ attempt = [t \in Tasks |-> 1]
  /\ lastError = [t \in Tasks |-> Undefined]
  /\ returned = [t \in Tasks |-> "none"]
  /\ raised = [t \in Tasks |-> Undefined]
  /\ invoked = [t \in Tasks |-> 0]
  /\ delay = [t \in Tasks |-> 0]
  /\ delays = [t \in Tasks |-> 0]
  /\ lastOutcome = [t \in Tasks |-> NoOutcome]
  /\ retryableFailures = [t \in Tasks |-> 0]
  /\ otherFailures = [t \in Tasks |-> 0]
  /\ op = [t \in Tasks |-> o]
  /\ arg = [t \in Tasks |-> NoArg]
  /\ phase = [t \in Tasks |-> "primary"]
  /\ exchange = NoExchange
  /\ thrown = Undefined
  /\ xpc = "idle"
  /\ params = NoParams
  /\ customerEmails = <<>>
  /\ cursor = 0
  /\ processedCount = 0
  /\ customers = [data |-> <<>>, next_cursor |-> 0]
  /\ position = 0
  /\ fetched = <<>>
  /\ delivered = <<>>
  /\ seen = <<>>
  /\ pageRequests = 0
  /\ requestLimit = 0
  /\ rpc = "idle"
  /\ invocation = NoInvocation
  /\ tries = 0
  /\ outbound = NoRequest
  /\ caught = Undefined
  /\ listing = NoData
  /\ result = NoResult
  /\ toolCall = NoToolCall

\* The options of the start command left at their defaults; retryAttempts 0:
\* none given.
DefaultConfig ==
  [username |-> Username, apiKey |-> ApiKey, rateLimit |-> DefaultRequestsPerWindow,
   retryAttempts |-> 0, debug |-> FALSE]

\* No server: a limiter or a retry handler on its own, nothing written.
NoServer ==
  /\ config = DefaultConfig
  /\ logger = NewLogger(FALSE, "start")
  /\ output = {}

\* new RateLimiter(requestsPerWindow, windowMs)
InitLimiter ==
  /\ requestsPerWindow \in 1..MaxRequestsPerWindow
  /\ windowMs \in 1..MaxWindowMs
  /\ requests = <<>>
  /\ issued = <<>>
  /\ sent = <<>>
  /\ maxAttempts = DefaultMaxAttempts
  /\ baseDelay = DefaultBaseDelay
  /\ NoServer
  /\ IdleTasks("checkLimit")

\* new RetryHandler(maxAttempts, baseDelay)
InitRetry ==
  /\ maxAttempts \in -1..MaxAttempts
  /\ baseDelay \in BaseDelays
  /\ requestsPerWindow = DefaultRequestsPerWindow
  /\ windowMs = DefaultWindowMs
  /\ requests = <<>>
  /\ issued = <<>>
  /\ sent = <<>>
  /\ NoServer
  /\ IdleTasks("operation")

\* new GorgiasClient(config, logger): the limiter is built with 40 and 20000,
\* the retry handler with config.retryAttempts || 3 and the default
\* config.retryDelay || 1000; the constructor's lines are written.
NewGorgiasClient(c, command) ==
  /\ config = c
  /\ logger = NewLogger(c.debug, command)
  /\ requestsPerWindow = ClientRequestsPerWindow
  /\ windowMs = ClientWindowMs
  /\ maxAttempts = IF c.retryAttempts = 0 THEN DefaultMaxAttempts ELSE c.retryAttempts
  /\ baseDelay = DefaultBaseDelay
  /\ output = Written(ConstructorLines(c))

\* The server as the start command builds it without --debug.  The client is
\* either new or has just sent a burst of Burst requests.
Init ==
  /\ \E retryAttempts \in -1..MaxAttempts :
       NewGorgiasClient([DefaultConfig EXCEPT !.retryAttempts = retryAttempts], "start")
  /\ \E k \in {0, Burst} :
       /\ requests = [i \in 1..k |-> now]
       /\ issued = requests
       /\ sent = requests
  /\ IdleTasks("none")

\* ------------------------------------------------------- specifications
NextLimiter ==
  \/ \E t \in Tasks : Call(t)
  \/ \E t \in Tasks : TimerFires(t)
  \/ \E t \in Tasks : Return(t)
  \/ Tick(1)

SpecLimiter == InitLimiter /\ [][NextLimiter]_vars

\* Timers that are due run, and time passes.
LiveLimiter ==
  /\ SpecLimiter
  /\ WF_vars(Tick(1))
  /\ \A t \in Tasks : WF_vars(TimerFires(t))

RetryTasks == {t \in Tasks : t <= 2}

NextRetry ==
  \/ \E t \in RetryTasks : Execute(t)
  \/ \E t \in RetryTasks, v \in Values : OperationReturns(t, v)
  \/ \E t \in RetryTasks, e \in Errors : OperationThrows(t, e)
  \/ \E t \in RetryTasks : BackoffElapsed(t)
  \/ \E t \in RetryTasks : Return(t)

SpecRetry == InitRetry /\ [][NextRetry]_vars

\* One caller at a time, every operation and every failure; time passes a
\* window at a time.
Next ==
  \/ \E o \in Operations : \E a \in Args(o) : ClientCall(1, o, a)
  \/ TimerFires(1)
  \/ \E v \in Values : ResponseOk(1, v)
  \/ \E status \in HttpStatuses, text \in RemoteTexts : ResponseError(1, status, text)
  \/ BackoffElapsed(1)
  \/ Return(1)
  \/ Tick(ClientWindowMs)

Spec == Init /\ [][Next]_vars

\* Two callers share the client: a plain operation and one with a fallback,
\* a failure that is retried and one that is not.
SharedTasks == {t \in Tasks : t <= 2}
SharedOperations == {"getTicket", "listEvents"}
SharedStatuses == {404, 500}

NextShared ==
  \/ \E t \in SharedTasks, o \in SharedOperations : ClientCall(t, o, NoArg)
  \/ \E t \in SharedTasks : TimerFires(t)
  \/ \E t \in SharedTasks : ResponseOk(t, "v1")
  \/ \E t \in SharedTasks, status \in SharedStatuses : ResponseError(t, status, <<"boom">>)
  \/ \E t \in SharedTasks : BackoffElapsed(t)
  \/ \E t \in SharedTasks : Return(t)
  \/ Tick(ClientTickMs)

SpecShared == Init /\ [][NextShared]_vars

\* The response error interceptor alone, over the statuses a failed exchange
\* can carry: 0 (no response) and the 3xx to 5xx range up to MaxStatus.
ExchangeStatuses == {0} \cup 300..MaxStatus

NextInterceptor ==
  \E status \in ExchangeStatuses, text \in RemoteTexts : Interceptor(status, text)

SpecInterceptor == Init /\ [][NextInterceptor]_vars

\* The extraction, its calls to listCustomers and listTickets taken by their
\* outcome.
NextExtract ==
  \/ \E p \in PagingParams : ExtractCall(p)
  \/ \E data \in Pages, next \in Cursors : CustomersArrive(data, next)
  \/ \E next \in Cursors : delivered = <<>> /\ CustomersArrive(BigPage, next)
  \/ CustomersFail
  \/ \E tickets \in TicketLists(Customer) : TicketsArrive(tickets)
  \/ CanFail(Customer) /\ TicketsFail
  \/ ExtractReturn

\* A new client with the default retry attempts.
InitExtract == Init /\ requests = <<>> /\ maxAttempts = DefaultMaxAttempts

SpecExtract == InitExtract /\ [][NextExtract]_vars

\* Every call to listCustomers and listTickets settles.
LiveExtract ==
  /\ SpecExtract
  /\ WF_vars(CustomersFail \/ \E data \in Pages : CustomersArrive(data, 0))
  /\ WF_vars(\E tickets \in TicketLists(Customer) : TicketsArrive(tickets))

\* The aggregation of one customer's tickets.
NextAggregate ==
  \/ \E p \in AggregateParams : ExtractCall(p)
  \/ CustomersArrive(<<1>>, 0)
  \/ \E tickets \in SeqUpTo(Tickets, MaxTickets) : TicketsArrive(tickets)
  \/ ExtractReturn

SpecAggregate == InitExtract /\ [][NextAggregate]_vars

\* The operations without a fallback, by their requests and results.
NextRequests ==
  \/ \E p \in ListTicketsInputs : Invoke("listTickets", p)
  \/ \E p \in ListCustomersInputs : Invoke("listCustomers", p)
  \/ \E ticketUpdate \in TicketUpdates : Invoke("updateTicket", ticketUpdate)
  \/ \E args \in ToolUpdates : HandleUpdateTicket(args)
  \/ Invoke("testConnection", EmptyObject)
  \/ PrimaryOk("v1")
  \/ \E status \in HttpStatuses : PrimaryError(status, <<"boom">>)
  \/ Settle

\* A new client.
InitRequests == Init /\ requests = <<>>

SpecRequests == InitRequests /\ [][NextRequests]_vars

\* listEvents and searchTickets, by their requests and results.
NextFallback ==
  \/ \E p \in ListEventsInputs : Invoke("listEvents", p)
  \/ \E q \in SearchQueries : Invoke("searchTickets", q)
  \/ PrimaryOk("v1")
  \/ \E status \in HttpStatuses : PrimaryError(status, <<"boom">>)
  \/ \E data \in Listings : FallbackOk(data)
  \/ \E status \in SharedStatuses : FallbackError(status, <<"boom">>)
  \/ Settle

SpecFallback == InitRequests /\ [][NextFallback]_vars

\* The server and its tools: every launch, the update-ticket and send-reply
\* tools with valid and invalid arguments, every outcome of their request.
Commands == {"start", "test"}
Configs ==
  {[DefaultConfig EXCEPT !.rateLimit = r, !.retryAttempts = a, !.debug = d] :
     r \in {10, DefaultRequestsPerWindow}, a \in {0, 1}, d \in BOOLEAN}

\* The test command builds its client with rateLimit 40 and no retryAttempts.
InitServer ==
  /\ \E c \in Configs, command \in Commands :
       /\ (command = "test") => (c.rateLimit = DefaultRequestsPerWindow /\ c.retryAttempts = 0)
       /\ NewGorgiasClient(c, command)
  /\ requests = <<>>
  /\ issued = <<>>
  /\ sent = <<>>
  /\ IdleTasks("none")

NextServer ==
  \/ \E args \in ToolUpdates : HandleUpdateTicket(args)
  \/ \E args \in ReplyArguments : HandleSendReply(args)
  \/ PrimaryOk("v1")
  \/ \E status \in HttpStatuses, text \in RemoteTexts : PrimaryError(status, text)
  \/ Settle

SpecServer == InitServer /\ [][NextServer]_vars

\* ------------------------------------------------- RateLimiter: claims
\* The timestamps recorded inside the window (time - windowMs, time].
InWindow(log, time) == {i \in DOMAIN log : log[i] > time - windowMs /\ log[i] <= time}

\* C1: at every instant, the window of length windowMs that ends there,
\* (now - windowMs, now], holds at most requestsPerWindow recorded issuance
\* timestamps, whatever the interleaving of the concurrent checkLimit calls.
C1_WindowNeverExceeded ==
  Cardinality(InWindow(issued, now)) <= requestsPerWindow

\* A caller found the window full, waited, and then recorded its timestamp
\* into a window that is full again.
C1_Witness ==
  \E t \in Tasks :
    /\ pc[t] = "returned"
    /\ waits[t] >= 1
    /\ requestsPerWindow >= 2
    /\ Cardinality(InWindow(issued, now)) = requestsPerWindow

\* C3: under LiveLimiter (time passes, due timers run, finitely many calls)
\* every caller suspended by checkLimit is eventually released with its slot
\* reserved.
C3_SuspendedCallerReturns ==
  \A t \in Tasks : (pc[t] = "wait") ~> (pc[t] = "returned")

\* A caller that lost the race for the freed slot, waited a second time and
\* then returned.
C3_Witness ==
  \E t \in Tasks : pc[t] = "returned" /\ waits[t] >= 2

\* Task t runs the body of checkLimit in this step: it enters it, or its
\* timer callback re-enters it.
RunsCheckLimit(t) ==
  \/ pc[t] = "idle" /\ pc'[t] # "idle"
  \/ pc[t] = "wait" /\ (pc'[t] # "wait" \/ waits'[t] # waits[t])

\* C4: when fewer than requestsPerWindow timestamps lie inside the trailing
\* window, checkLimit records now as the newest timestamp and returns in the
\* same step, without taking a (further) timer wait.
C4_ReturnsAtOnceWithCapacity ==
  [][\A t \in Tasks :
       (RunsCheckLimit(t) /\ Cardinality(InWindow(requests, now)) < requestsPerWindow)
       => /\ pc'[t] = "returned"
          /\ waits'[t] = (IF pc[t] = "idle" THEN 0 ELSE waits[t])
          /\ Len(requests') = Cardinality(InWindow(requests, now)) + 1
          /\ requests'[Len(requests')] = now
          /\ issued' = Append(issued, now)]_vars

\* A call that met a window holding one timestamp, with room for a second,
\* and returned without any wait.
C4_Witness ==
  \E t \in Tasks :
    /\ pc[t] = "returned"
    /\ waits[t] = 0
    /\ Cardinality(InWindow(requests, now)) = 2

\* ------------------------------------------------ RetryHandler: claims
\* C5: when the operation fails with an error that is not one to retry
\* (and maxAttempts >= 1), the call ends there: the operation has been
\* invoked exactly once, no backoff delay has been taken, and the error
\* raised is that error.
C5_NonRetryableAttemptedOnce ==
  \A t \in Tasks :
    (maxAttempts >= 1 /\ retryableFailures[t] = 0 /\ otherFailures[t] >= 1)
    => /\ pc[t] \in {"failed", "idle"}
       /\ invoked[t] = 1
       /\ delays[t] = 0
       /\ ~lastOutcome[t].ok
       /\ raised[t] = lastOutcome[t].error

\* A call that had attempts left and still failed on its first, non-retryable
\* error.
C5_Witness ==
  \E t \in Tasks :
    /\ pc[t] = "failed"
    /\ maxAttempts >= 2
    /\ otherFailures[t] = 1
    /\ invoked[t] = 1

\* C6: a call whose operation has only failed with retryable errors, fewer
\* than maxAttempts times, has not given up; and when the operation succeeds
\* after maxAttempts - 1 such failures the call returns that success value,
\* the operation having been invoked exactly maxAttempts times.
C6_SucceedsOnLastAttempt ==
  \A t \in Tasks :
    (maxAttempts >= 1 /\ otherFailures[t] = 0)
    => /\ retryableFailures[t] < maxAttempts => pc[t] # "failed"
       /\ (lastOutcome[t].ok /\ retryableFailures[t] = maxAttempts - 1)
          => /\ pc[t] \in {"done", "idle"}
             /\ returned[t] = lastOutcome[t].value
             /\ invoked[t] = maxAttempts

\* Two retryable failures, then success on the third and last attempt.
C6_Witness ==
  \E t \in Tasks :
    /\ pc[t] = "done"
    /\ maxAttempts >= 3
    /\ retryableFailures[t] = maxAttempts - 1
    /\ otherFailures[t] = 0

\* C7: an operation that fails with a retryable error on every attempt is
\* invoked exactly maxAttempts times, never more, and the call then raises
\* the error of the final attempt.
C7_RaisesLastFailure ==
  \A t \in Tasks :
    (maxAttempts >= 1 /\ otherFailures[t] = 0)
    => /\ retryableFailures[t] <= maxAttempts
       /\ retryableFailures[t] = maxAttempts
          => /\ pc[t] \in {"failed", "idle"}
             /\ invoked[t] = maxAttempts
             /\ ~lastOutcome[t].ok
             /\ raised[t] = lastOutcome[t].error

\* Every one of three attempts failed with a retryable error.
C7_Witness ==
  \E t \in Tasks :
    /\ pc[t] = "failed"
    /\ maxAttempts >= 3
    /\ retryableFailures[t] = maxAttempts
    /\ otherFailures[t] = 0

\* C8: (maxAttempts >= 1) when attempt n ends, the call goes on to attempt
\* n + 1 exactly if attempt n failed, n < maxAttempts and the failure is
\* classified retryable; the operation is invoked again only from that
\* state, as attempt n + 1 <= maxAttempts, so never after a success or a
\* terminal failure and never more than maxAttempts times.
C8_NextAttemptIffRetryable ==
  [][\A t \in Tasks :
       maxAttempts >= 1
       => /\ (pc[t] = "attempting" /\ pc'[t] # "attempting")
             => (pc'[t] = "backoff"
                   <=> /\ ~lastOutcome'[t].ok
                       /\ attempt[t] < maxAttempts
                       /\ ShouldRetry(lastOutcome'[t].error))
          /\ (invoked'[t] > invoked[t] /\ pc[t] # "idle")
             => /\ pc[t] = "backoff"
                /\ invoked'[t] = invoked[t] + 1
                /\ attempt'[t] = attempt[t] + 1
          /\ invoked'[t] <= maxAttempts
          /\ invoked'[t] = attempt'[t] \/ pc'[t] = "idle"]_vars

\* A call in its second or later attempt.
C8_Witness ==
  \E t \in Tasks : pc[t] = "attempting" /\ attempt[t] >= 2 /\ invoked[t] = attempt[t]

\* The kind an error is tagged with: the code its message starts with.
KindOf(error) == IF error.message = <<>> THEN "" ELSE error.message[1]

\* The classification the specification gives.
RetryableByKind(error) ==
  \/ KindOf(error) \in {RATE_LIMIT_EXCEEDED, NETWORK_ERROR}
  \/ error.status \in {408, 429}
  \/ error.status >= 500

\* C10: a failed attempt that has attempts left is followed by a retry if
\* and only if its error is tagged RATE_LIMIT_EXCEEDED or NETWORK_ERROR or
\* carries status 408, 429 or >= 500; errors of the other kinds end the call.
C10_RetryableIffTagged ==
  \A t \in Tasks :
    /\ pc[t] = "backoff" => RetryableByKind(lastError[t])
    /\ (pc[t] = "failed" /\ invoked[t] >= 1 /\ attempt[t] < maxAttempts)
       => ~RetryableByKind(lastError[t])

\* C11: the delay of the backoff taken before attempt k (k >= 2) is at most
\* 30000 ms, at most baseDelay * 2^(k-2) + 1000 ms, and, when it is below
\* 30000 ms, at least baseDelay * 2^(k-2).
C11_DelayInRange ==
  \A t \in Tasks :
    pc[t] = "backoff"
    => LET k == attempt[t] + 1
           exponential == baseDelay * 2^(k - 2)
       IN  /\ k >= 2
           /\ delay[t] <= 30000
           /\ delay[t] <= exponential + 1000
           /\ delay[t] < 30000 => delay[t] >= exponential

\* The second backoff of a call, cut at the cap although its exponential
\* term is below it.
C11_Witness ==
  \E t \in Tasks :
    /\ pc[t] = "backoff"
    /\ attempt[t] = 2
    /\ baseDelay * 2 < 30000
    /\ delay[t] = 30000

\* ----------------------------------------------- GorgiasClient: claims
\* C2: every HTTP request the client sends, a first attempt, a retry or a
\* fallback request alike, is sent in the step in which its own checkLimit
\* call returns and records its slot, so the log of requests sent is the log
\* of slots issued; and the window (now - 20000, now] never holds more than
\* 40 requests sent.
C2_EveryRequestTakesASlot ==
  /\ sent = issued
  /\ Cardinality({i \in DOMAIN sent : sent[i] > now - ClientWindowMs})
       <= ClientRequestsPerWindow

\* While another caller is active, a retry or a fallback request has been
\* sent after its checkLimit call found the window full and waited.
C2_Witness ==
  \E t, u \in Tasks :
    /\ pc[t] = "inflight"
    /\ waits[t] >= 1
    /\ invoked[t] >= 2 \/ phase[t] = "fallback"
    /\ u # t
    /\ pc[u] # "idle"

\* The kinds of failure that are to surface on their first occurrence.
NeverRetriedKinds == {VALIDATION_ERROR, UNAUTHORIZED, FORBIDDEN, RESOURCE_NOT_FOUND}

\* C9: whatever operation is called and whatever text the failure carries, a
\* failure of kind VALIDATION_ERROR, UNAUTHORIZED, FORBIDDEN or
\* RESOURCE_NOT_FOUND is never followed by a backoff and a further attempt.
C9_SurfacesOnFirstOccurrence ==
  \A t \in Tasks :
    pc[t] = "backoff" => KindOf(lastError[t]) \notin NeverRetriedKinds

\* The domain error kind the specification gives a failed exchange.
KindByStatus(status) ==
  CASE status = 401 -> UNAUTHORIZED
    [] status = 403 -> FORBIDDEN
    [] status = 404 -> RESOURCE_NOT_FOUND
    [] status = 429 -> RATE_LIMIT_EXCEEDED
    [] OTHER -> NETWORK_ERROR

\* C12: the error thrown for a failed exchange is tagged with exactly one
\* kind, the one its status determines: 401 UNAUTHORIZED, 403 FORBIDDEN, 404
\* RESOURCE_NOT_FOUND, 429 RATE_LIMIT_EXCEEDED, and NETWORK_ERROR for a
\* status >= 500, any other status and no response; the rest of its message
\* is a fixed phrase and the text of the failure.
C12_OneKindPerStatus ==
  exchange # NoExchange
  => /\ KindOf(thrown) = KindByStatus(exchange.status)
     /\ Len(thrown.message) = 2 + Len(exchange.text)
     /\ SubSeq(thrown.message, 3, Len(thrown.message)) = exchange.text
     /\ thrown.message[2] \notin
          {RATE_LIMIT_EXCEEDED, RESOURCE_NOT_FOUND, VALIDATION_ERROR, NETWORK_ERROR,
           UNAUTHORIZED, FORBIDDEN}

\* A 403 whose remote text names another code.
C12_Witness ==
  /\ exchange.status = 403
  /\ Includes(exchange.text, NETWORK_ERROR)
  /\ KindOf(thrown) = FORBIDDEN

\* C13: a sendReply call with message_type "outgoing" and no receiver_email
\* fails with a VALIDATION_ERROR in the step that starts it, after one
\* invocation: that step sends no request and records no rate-limiter slot,
\* and the call never waits for a slot or for a response.
C13_ReplyNeedsReceiver ==
  [][\A t \in Tasks :
       (/\ op'[t] = "sendReply"
        /\ arg'[t].message_type = "outgoing"
        /\ arg'[t].receiver_email = <<>>)
       => /\ pc'[t] = "failed"
          /\ invoked'[t] = 1
          /\ KindOf(raised'[t]) = VALIDATION_ERROR
          /\ invoked'[t] > invoked[t] => /\ sent' = sent
                                         /\ issued' = issued
                                         /\ requests' = requests]_vars

\* No piece of the address is a blank or an "@".
Plain(pieces) == \A k \in DOMAIN pieces : pieces[k] \notin {"@", " "}

\* The shape local@domain.tld: three non-empty parts without blanks and
\* without a further "@", joined by "@" and ".".
HasEmailShape(email) ==
  \E i, j \in DOMAIN email :
    LET local == SubSeq(email, 1, i - 1)
        domain == SubSeq(email, i + 1, j - 1)
        tld == SubSeq(email, j + 1, Len(email))
    IN  /\ i < j
        /\ local # <<>> /\ domain # <<>> /\ tld # <<>>
        /\ Plain(local) /\ Plain(domain) /\ Plain(tld)
        /\ email = local \o <<"@">> \o domain \o <<".">> \o tld

\* C14: while a createCustomer call with an e-mail that has not the shape
\* local@domain.tld is in progress, its latest invocation has failed with a
\* VALIDATION_ERROR and the call is neither waiting for a slot nor for a
\* response; no step of the call sends a request or records a slot.
C14_CustomerNeedsEmailShape ==
  [][\A t \in Tasks :
       (op'[t] = "createCustomer" /\ pc'[t] # "idle" /\ ~HasEmailShape(arg'[t].email))
       => /\ pc'[t] \in {"failed", "backoff"}
          /\ ~lastOutcome'[t].ok
          /\ KindOf(lastOutcome'[t].error) = VALIDATION_ERROR
          /\ pc'[t] = "failed" => KindOf(raised'[t]) = VALIDATION_ERROR
          /\ invoked'[t] > invoked[t] => /\ sent' = sent
                                         /\ issued' = issued
                                         /\ requests' = requests]_vars

\* ---------------------------------------- extractCustomerEmails: claims
\* C15: the list being collected, and so the list returned, never holds more
\* than limit records, 100 when no limit is given.
C15_AtMostLimitRecords ==
  xpc # "idle"
  => Len(customerEmails) <= (IF params.limit = 0 THEN 100 ELSE params.limit)

\* A page held more customers than the call could take: 100 records were
\* returned to a call without a limit.
C15_Witness ==
  /\ xpc = "done"
  /\ params.limit = 0
  /\ Len(customerEmails) = 100
  /\ Len(delivered) > 100

\* The customers of a list of records, and of the history of customers
\* worked on.
CustomerIds(records) == [i \in DOMAIN records |-> records[i].customer_id]
SeenIds(history) == [i \in DOMAIN history |-> history[i].customer]

\* C16: the customers worked on are the customers the pages delivered, in
\* that order, up to the point the extraction has reached; the records are
\* those of them whose processing did not fail, in that order; a returned
\* extraction has worked on every customer delivered unless it has reached
\* its limit; and the extraction only throws when a page request fails, not
\* in the middle of a page.
C16_FailedCustomerOmitted ==
  /\ Len(seen) <= Len(delivered)
  /\ SeenIds(seen) = SubSeq(delivered, 1, Len(seen))
  /\ CustomerIds(customerEmails) = SeenIds(SelectSeq(seen, LAMBDA h : ~h.failed))
  /\ (xpc = "done") => (Len(seen) = Len(delivered) \/ processedCount >= MaxLimitOf(params))
  /\ (xpc = "failed") => (position \in {0, Len(customers.data) + 1})

\* Three customers, the second failed: records for the first and the third.
C16_Witness ==
  /\ xpc = "done"
  /\ delivered = <<1, 2, 3>>
  /\ seen = <<[customer |-> 1, failed |-> FALSE], [customer |-> 2, failed |-> TRUE],
              [customer |-> 3, failed |-> FALSE]>>
  /\ CustomerIds(customerEmails) = <<1, 3>>

\* C17: a further customer page is only being requested while the latest
\* page came with a cursor and fewer than limit customers are recorded; when
\* the limit is reached the call has returned; and, every listCustomers and
\* listTickets call settling and the remote ending its pages, a running
\* extraction eventually returns or throws.
C17_StopsAtLimitOrLastPage ==
  /\ []((xpc = "customers" /\ pageRequests > 1)
          => (customers.next_cursor # 0 /\ processedCount < MaxLimitOf(params)))
  /\ []((xpc # "idle" /\ processedCount >= MaxLimitOf(params)) => xpc = "done")
  /\ [](pageRequests <= MaxPages)
  /\ (xpc \in {"customers", "tickets"}) ~> (xpc \in {"done", "failed"})

\* The limit was reached on a page that came with a cursor: the call has
\* returned after its one page request.
C17_Witness ==
  /\ xpc = "done"
  /\ customers.next_cursor # 0
  /\ processedCount = MaxLimitOf(params)
  /\ pageRequests = 1
  /\ Len(seen) < Len(delivered)

\* The day a time falls on.
DayOf(time) == time \div TicksPerDay

\* The ticket lies in the date range and has a status asked for.
PassesFilters(ticket, p) ==
  /\ p.date_from = NoDate \/ DayOf(ticket.created) >= p.date_from
  /\ p.date_to = NoDate \/ DayOf(ticket.created) <= p.date_to
  /\ p.status_filter = <<>> \/ \E i \in DOMAIN p.status_filter : p.status_filter[i] = ticket.status

\* C18: ticket_count of every record is the number of tickets fetched for
\* its customer that were created from day date_from on, if given, up to
\* and including day date_to, if given, and whose status is in status_filter,
\* if a non-empty one is given.
C18_TicketCountInDateRange ==
  \A i \in DOMAIN customerEmails :
    customerEmails[i].ticket_count
      = Cardinality({k \in DOMAIN fetched[i] : PassesFilters(fetched[i][k], params)})

\* The times of a list of tickets.
Created(tickets) == {tickets[k].created : k \in DOMAIN tickets}

\* C19: for every record, with the tickets the filters kept: if there are
\* none, status is "unknown", last_ticket_date is undefined and ticket_count
\* is 0; otherwise last_ticket_date is the latest created_datetime among them
\* and status is the status of one of them created at that time.
C19_StatusOfLatestTicket ==
  /\ Len(customerEmails) = Len(fetched)
  /\ \A i \in DOMAIN customerEmails :
       LET kept == FilteredTickets(fetched[i], params)
           record == customerEmails[i]
       IN  IF kept = <<>>
           THEN /\ record.status = "unknown"
                /\ record.last_ticket_date = NoDate
                /\ record.ticket_count = 0
           ELSE /\ record.last_ticket_date \in Created(kept)
                /\ \A time \in Created(kept) : time <= record.last_ticket_date
                /\ \E k \in DOMAIN kept : /\ kept[k].created = record.last_ticket_date
                                           /\ kept[k].status = record.status

\* A record whose latest ticket was not the first in the list fetched, and a
\* call whose filters kept no ticket of the two fetched.
C19_Witness ==
  /\ xpc = "done"
  /\ Len(customerEmails) = 1
  /\ Len(fetched[1]) = 2
  /\ \/ /\ customerEmails[1].ticket_count = 2
        /\ fetched[1][1].created < fetched[1][2].created
        /\ fetched[1][1].status # fetched[1][2].status
     \/ customerEmails[1].status = "unknown"

\* C20: for every record, with the tickets the filters kept: without
\* include_satisfaction the score is undefined; with it, the score is
\* undefined exactly when none of them carries a score, and otherwise lies
\* within half a hundredth of the mean of their scores.
C20_MeanSatisfaction ==
  \A i \in DOMAIN customerEmails :
    LET kept == FilteredTickets(fetched[i], params)
        scored == SelectSeq(kept, LAMBDA ticket : ticket.score # 0)
        n == Len(scored)
        sum == SumOfScores(scored)
        score == customerEmails[i].satisfaction_score
    IN  IF ~params.include_satisfaction \/ n = 0
        THEN score = UndefinedNumber
        ELSE /\ score # UndefinedNumber
             /\ 2 * (score * n - 100 * sum) <= n
             /\ 2 * (100 * sum - score * n) <= n

\* Scores 4, 5 and 5 gave 4.67.
C20_Witness ==
  /\ xpc = "done"
  /\ Len(customerEmails) = 1
  /\ customerEmails[1].satisfaction_score = 467

\* The requests of the extraction that are outstanding: the page request
\* or the ticket request it awaits.
Outstanding ==
  (IF xpc = "customers" THEN {<<"listCustomers", pageRequests>>} ELSE {})
    \cup (IF xpc = "tickets" THEN {<<"listTickets", Customer>>} ELSE {})

\* C21: at most one request of the extraction is outstanding; while a
\* customer's tickets are being fetched, every customer delivered before it
\* has been recorded or skipped and no later one has; and while a further
\* page is being requested, every customer delivered so far has been
\* recorded or skipped.
C21_StrictlySequential ==
  /\ Cardinality(Outstanding) <= 1
  /\ (xpc = "tickets")
       => /\ position \in DOMAIN customers.data
          /\ Len(seen) = Len(delivered) - Len(customers.data) + position - 1
  /\ (xpc = "customers" /\ pageRequests > 1) => (Len(seen) = Len(delivered))

\* The tickets of the second customer of a second page are being fetched.
C21_Witness ==
  /\ xpc = "tickets"
  /\ pageRequests = 2
  /\ position = 2
  /\ Len(seen) = Len(delivered) - Len(customers.data) + 1

\* ------------------------------------ GorgiasClient: requests and results, claims
\* The call under way is a call of operation o that has sent a request.
Sent(o) == invocation.op = o /\ outbound # NoRequest

\* The call of operation o has returned what its catch block made of a
\* ticket listing.
FellBack(o) == invocation.op = o /\ rpc = "done" /\ caught # Undefined

\* The tickets of the listing the fallback request received.
Listed == IF listing = NoData THEN <<>> ELSE listing[1]

\* The event is the one synthesized of the ticket.
MadeOf(event, ticket) ==
  /\ event.event_type = "ticket-activity"
  /\ event.object_type = "ticket"
  /\ event.object_id = ticket.id
  /\ event.created_datetime = (IF ticket.updated # 0 THEN ticket.updated ELSE ticket.created)

\* C22, as claimed: when the events request has failed, listEvents returns
\* one event per ticket of the fallback listing, made of that ticket.
C22_OneEventPerTicket ==
  FellBack("listEvents")
    => /\ Len(result.data) = Len(Listed)
       /\ \A i \in DOMAIN result.data : MadeOf(result.data[i], Listed[i])

\* The call gives none of the filters that are applied to synthesized events.
Unfiltered(p) == p.object_type \in {"", "ticket"} /\ p.object_id = 0 /\ p.user_id = 0

\* C22, amended: when the events request has failed, every event listEvents
\* returns is made of a ticket of the fallback listing and there are no more
\* events than tickets; when the call gives no object_id, no user_id and no
\* object_type other than "ticket", there is one event per ticket, in the
\* order of the listing.
C22_EventsMadeOfTickets ==
  FellBack("listEvents")
    => /\ Len(result.data) <= Len(Listed)
       /\ \A i \in DOMAIN result.data :
            \E k \in DOMAIN Listed : MadeOf(result.data[i], Listed[k])
       /\ Unfiltered(invocation.input)
            => /\ Len(result.data) = Len(Listed)
               /\ \A i \in DOMAIN result.data : MadeOf(result.data[i], Listed[i])

\* Two tickets, the first with an updated time and the second without, gave
\* two events to a call without filters.
C22_Witness ==
  /\ FellBack("listEvents")
  /\ Unfiltered(invocation.input)
  /\ Len(Listed) = 2
  /\ Listed[1].updated # 0
  /\ Listed[2].updated = 0
  /\ Len(result.data) = 2

\* C23: in fallback mode a call with an object_type other than "ticket"
\* gets no event; any other call gets the events synthesized of the listing
\* whose object_id is the one asked for, if one is, and whose user_id is the
\* one asked for, if one is, in the order of the listing; total_resources is
\* the number of events returned.
C23_FiltersReapplied ==
  FellBack("listEvents")
    => LET p == invocation.input
           events == [i \in DOMAIN Listed |-> Synthesize(Listed[i])]
           asked(event) == /\ p.object_id # 0 => event.object_id = p.object_id
                           /\ p.user_id # 0 => event.user_id = p.user_id
       IN  /\ result.data = (IF p.object_type \notin {"", "ticket"} THEN <<>>
                             ELSE SelectSeq(events, asked))
           /\ result.total_resources = Len(result.data)

\* Of two tickets with different assignees, the call asking for user 7 got
\* the event of the one assigned to user 7.
C23_Witness ==
  /\ FellBack("listEvents")
  /\ invocation.input.user_id = 7
  /\ Len(Listed) = 2
  /\ Listed[1].assignee = 8
  /\ Listed[2].assignee = 7
  /\ Len(result.data) = 1
  /\ result.data[1].object_id = Listed[2].id

\* Two characters are the same letter, whatever their case.
SameLetter(a, b) == a = b \/ {a, b} \in {{"A", "a"}, {"B", "b"}}

\* The text, if there is one, contains the term, case ignored.
ContainsIgnoringCase(text, term) ==
  /\ text # <<>>
  /\ \E i \in 0..(Len(text[1]) - Len(term)) :
       \A k \in DOMAIN term : SameLetter(text[1][i + k], term[k])

\* C24: when the search request has failed, searchTickets returns the
\* tickets of the fallback listing, in its order, whose subject or customer
\* e-mail contains the query, case ignored (every ticket for an empty
\* query), and whose status, channel and customer e-mail are the ones asked
\* for, as far as they are.
C24_SearchFallbackFilters ==
  FellBack("searchTickets")
    => LET q == invocation.input
           wanted(ticket) ==
             /\ \/ q.query = <<>>
                \/ ContainsIgnoringCase(ticket.subject, q.query)
                \/ ContainsIgnoringCase(ticket.email, q.query)
             /\ q.status # "" => ticket.status = q.status
             /\ q.channel # "" => ticket.channel = q.channel
             /\ q.customer_email # <<>> => ticket.email = <<q.customer_email>>
       IN  result.data = SelectSeq(Listed, wanted)

\* The query "ba" found the ticket of customer "BA@" and not the ticket
\* listed after it.
C24_Witness ==
  /\ FellBack("searchTickets")
  /\ invocation.input.query = <<"b", "a">>
  /\ Len(Listed) = 2
  /\ Listed[1].email = <<<<"B", "A", "@">>>>
  /\ result.data = <<Listed[1]>>

\* C25: the fallback request is sent for a retryable failure of the primary
\* request only when the retry handler has used up its attempts.
C25_FallbackAfterRetries ==
  (rpc = "fallback" /\ ShouldRetry(caught)) => tries = maxAttempts

C27_NullAssigneeUnassigns ==
  (/\ invocation.op = "updateTicket"
   /\ "assignee_user_id" \in DOMAIN invocation.input
   /\ invocation.input["assignee_user_id"] = JSNull
   /\ ValidationErrors(invocation.input) \subseteq {"assignee_user_id"}
   /\ maxAttempts >= 1)
    => /\ outbound # NoRequest
       /\ "assignee_user_id" \in DOMAIN outbound.body
       /\ outbound.body["assignee_user_id"] = JSNull

\* C28: the request of listTickets and of listCustomers has no order_by
\* parameter when no order field is given, and otherwise the field, a colon
\* and the direction, "desc" when none is given.
C28_OrderSerialized ==
  (Sent("listTickets") \/ Sent("listCustomers"))
    => LET p == invocation.input
       IN  IF p.order_by = ""
           THEN "order_by" \notin DOMAIN outbound.query
           ELSE /\ "order_by" \in DOMAIN outbound.query
                /\ outbound.query["order_by"]
                     = <<p.order_by, ":">>
                         \o (IF p.order_direction = "" THEN <<"desc">> ELSE <<p.order_direction>>)

\* listTickets with limit 2, order_by created_datetime and order_direction
\* asc sent "created_datetime:asc".
C28_Witness ==
  /\ Sent("listTickets")
  /\ invocation.input.limit = 2
  /\ invocation.input.order_direction = "asc"
  /\ outbound.query["limit"] = 2
  /\ outbound.query["order_by"] = <<"created_datetime", ":", "asc">>

\* C29: the ticket-listing request carries every filter listTickets is
\* given: customer_id, status, channel and tags.
C29_FiltersCarried ==
  Sent("listTickets")
    => LET p == invocation.input
           carried(key) == key \in DOMAIN outbound.query /\ outbound.query[key] = p[key]
       IN  /\ p.customer_id # 0 => carried("customer_id")
           /\ p.status # "" => carried("status")
           /\ p.channel # "" => carried("channel")
           /\ p.tags # <<>> => carried("tags")

\* C30: testConnection sends GET /tickets with limit 1 and nothing else, never
\* raises, and returns true when the request succeeded and false when it
\* failed, whatever the failure.
C30_TestConnectionNeverRaises ==
  invocation.op = "testConnection"
    => /\ outbound = [NoRequest EXCEPT !.method = "GET", !.path = "/tickets",
                                       !.query = "limit" :> 1]
       /\ rpc \in {"primary", "done"}
       /\ result.kind \in {"none", "boolean"}
       /\ rpc = "done" => /\ result.kind = "boolean"
                          /\ result.flag <=> caught = Undefined

\* The request failed with a status that is not retried and with one that
\* is: testConnection returned false.
C30_Witness ==
  /\ invocation.op = "testConnection"
  /\ rpc = "done"
  /\ result = Boolean(FALSE)
  /\ Includes(caught.message, UNAUTHORIZED) \/ Includes(caught.message, NETWORK_ERROR)

\* ---------------------------------------- RateLimiter: the timestamp list
\* The timestamps of the list that lie inside the trailing window.
StillInWindow == SelectSeq(requests, LAMBDA time : time > now - windowMs)

\* C35: after every step of checkLimit the timestamp list holds at most
\* requestsPerWindow entries, and no step removes an entry that is still
\* inside the trailing window: a step that does not run checkLimit removes
\* nothing (time passing only ages the entries), and a step of checkLimit
\* keeps the in-window entries, in order, at the head of the new list.
C35_BoundedAndPrunedByTimeOnly ==
  /\ [](Len(requests) <= requestsPerWindow)
  /\ [][\/ /\ \A t \in Tasks : ~RunsCheckLimit(t)
           /\ Len(requests') = Len(requests)
        \/ /\ Len(requests') >= Len(StillInWindow)
           /\ SubSeq(requests', 1, Len(StillInWindow)) = StillInWindow]_vars

\* A full list after a caller has waited for the oldest entry to leave the
\* window and then recorded its own timestamp.
C35_Witness ==
  \E t \in Tasks :
    /\ pc[t] = "returned"
    /\ waits[t] >= 1
    /\ requestsPerWindow = 2
    /\ Len(requests) = requestsPerWindow
    /\ requests[1] < requests[2]

C39_AtLeastOneAttempt ==
  \A t \in Tasks :
    /\ (pc[t] \in {"done", "failed"}) => (invoked[t] >= 1)
    /\ (pc[t] = "failed")
       => (raised[t] # Undefined /\ lastOutcome[t] = Failed(raised[t]))

\* What one call of executeWithRetry holds: its position, its loop counter,
\* its lastError and its history.
CallState(t) ==
  <<pc[t], attempt[t], lastError[t], invoked[t], delays[t], delay[t], raised[t], returned[t]>>

\* C34: concurrent executeWithRetry calls on one RetryHandler are
\* independent.  A step of one call leaves the counter and the state of
\* every other call alone; each call invokes its operation at most
\* maxAttempts times, counted by its own attempt counter; and while a call is
\* suspended in a backoff delay any other call can start, and an attempt in
\* flight can succeed or fail.
C34_CallsIndependent ==
  /\ [][\A t, u \in RetryTasks :
          (t # u /\ CallState(t)' # CallState(t)) => (CallState(u)' = CallState(u))]_vars
  /\ [](\A t \in RetryTasks :
          /\ invoked[t] <= Max(maxAttempts, 0)
          /\ (pc[t] \in {"attempting", "backoff"}) => (invoked[t] = attempt[t]))
  /\ [](\A t, u \in RetryTasks :
          (t # u /\ pc[u] = "backoff")
          => /\ (pc[t] = "idle") => ENABLED Execute(t)
             /\ (pc[t] = "attempting")
                => /\ ENABLED OperationReturns(t, "v1")
                   /\ ENABLED OperationThrows(t, [message |-> <<"boom">>, status |-> 500]))

\* One call is in its second backoff delay while the other has used up its
\* own three attempts and failed.
C34_Witness ==
  \E t, u \in RetryTasks :
    /\ pc[u] = "backoff" /\ attempt[u] = 2 /\ delays[u] = 2
    /\ pc[t] = "failed" /\ invoked[t] = 3 /\ maxAttempts = 3

\* ------------------------------------ extractCustomerEmails: processed count
\* The customers worked on whose processing did not fail.
RecordedCustomers == SelectSeq(seen, LAMBDA entry : ~entry.failed)

\* C38: in extractCustomerEmails the processed count equals the number of
\* records in the output list, which is the number of customers whose
\* processing did not fail, and the size requested for the next customer
\* page is min(100, limit - records output so far), limit being 100 when
\* none is given.
C38_ProcessedCountIsRecordCount ==
  /\ processedCount = Len(customerEmails)
  /\ Len(customerEmails) = Len(RecordedCustomers)
  /\ (xpc = "customers")
     => LET limit == IF params.limit = 0 THEN 100 ELSE params.limit
            rest == limit - Len(customerEmails)
        IN  requestLimit = IF 100 <= rest THEN 100 ELSE rest

\* A second page is requested after a page on which one customer failed and
\* one was recorded.
C38_Witness ==
  /\ xpc = "customers"
  /\ pageRequests = 2
  /\ Len(customerEmails) = 1
  /\ Len(seen) = 2
  /\ params.limit = 3
  /\ requestLimit = 2

\* ------------------------------------------------- the server: claims
\* The text has part as a run of consecutive pieces.
Contains(text, part) ==
  \E i \in 0..(Len(text) - Len(part)) : SubSeq(text, i + 1, i + Len(part)) = part

\* The text holds the API key, the username:apiKey pair or the Basic-Auth
\* encoding of the pair.
Leaks(text) ==
  \/ Contains(text, <<config.apiKey>>)
  \/ Contains(text, <<config.username, ":", config.apiKey>>)
  \/ Contains(text, <<"YWdlbnQ6c2VjcmV0">>)

\* A tool invocation has failed: the error its handler threw reaches the
\* catch block of the CallTool handler.
ToolFailed == rpc = "failed" /\ toolCall # NoToolCall /\ result.kind = "raised"

\* C31: no line written to the console, at any level, and no message of an
\* error thrown to a tool's caller contains the API key, the username:apiKey
\* pair or its base64 encoding.
C31_CredentialsNeverWritten ==
  /\ \A l \in output : ~Leaks(l.text)
  /\ ToolFailed => ~Leaks(TransformError(result.error).message)

\* The kind of an error: the code its message was built with, a validation
\* error for the errors of createValidationError.
TrueKind(error) ==
  IF ErrorName(error) = "ValidationError" THEN VALIDATION_ERROR ELSE KindOf(error)

\* The errors that reach the tool boundary.
ToolErrors ==
  {Translate(status, text) : status \in HttpStatuses, text \in RemoteTexts}
    \cup {[message |-> <<"Invalid input:">>, status |-> 0],
          Precondition("sendReply", [NoArg EXCEPT !.message_type = "outgoing"])}

\* C32: whatever the underlying message text, the error thrown to the
\* tool's caller tells the kind of the failure: no error of another kind is
\* surfaced with the same code and message.
C32_KindsDistinguishable ==
  (ToolFailed /\ result.error # Undefined)
  => \A other \in ToolErrors :
       (TrueKind(other) # TrueKind(result.error))
       => (TransformError(other) # TransformError(result.error))

\* C33: the limiter of the client enforces the configured rate limit, which
\* is 40 when the start command is given none.
C33_ConfiguredRateLimitEnforced == requestsPerWindow = config.rateLimit

\* The tool invoked in this step, its arguments after sanitizeInput, and
\* whether validateInput finds them at fault.
ToolInvoked == rpc = "idle" /\ toolCall' # NoToolCall
InvalidArguments ==
  LET sanitizedArgs == SanitizeInput(toolCall'.arguments)
  IN  IF toolCall'.name = "gorgias_send_reply"
      THEN ValidateInput(sanitizedArgs, SendReplySchema) # {}
      ELSE ValidationErrors(sanitizedArgs) # {}

C40_HtmlBodyPreserved ==
  (toolCall.name = "gorgias_send_reply" /\ outbound # NoRequest)
  => LET html == Get(toolCall.arguments, "body_html")
     IN  outbound.body["body_html"] = IF html # <<>> THEN html ELSE outbound.body["body_text"]
====
